---------------------------- MODULE Spec2Model ----------------------------
(***************************************************************************)
(* SkateChat (src/skate/projects/js/chat.js): the group registry, the      *)
(* relay transport and the inbound event pipeline as a state machine.      *)
(*                                                                         *)
(* Strings are kept as the strings the program handles.  SHA-256 and the   *)
(* FNV/murmur group-id hash are tabulated for the strings the model draws  *)
(* its inputs from; every table entry is the value the program computes.   *)
(***************************************************************************)
EXTENDS Integers, Sequences, FiniteSets, TLC

(***************************************************************************)
(* Bounds of the model.  MAX_GROUPS, MAX_MESSAGES and the processed-id     *)
(* window stand for CONFIG.MAX_GROUPS = 10, CONFIG.MAX_MESSAGES = 500 and  *)
(* the literals 500 / 250 of handleEvent, scaled down so that the capacity *)
(* and eviction cases are reached.                                         *)
(***************************************************************************)
MAX_GROUPS == 2

MAX_MESSAGES == 3

PROCESSED_MAX == 2

PROCESSED_KEEP == 1

MaxDeliveries == 4

MaxDrops == 3

MaxCalls == 3

MaxPending == 2

MaxCapCalls == 3

MAX_MESSAGE_LENGTH == 5

MaxDmSteps == 5

EmptyFn == [x \in {} |-> x]

\* No vote event published yet.
NoBallots == [sent |-> <<>>, back |-> {}]

Null == "null"

Undefined == "<undefined>"

Max(a, b) == IF a >= b THEN a ELSE b

Min(a, b) == IF a <= b THEN a ELSE b

(***************************************************************************)
(* CONFIG and the identity.                                                *)
(***************************************************************************)
RELAYS == {"wss://relay.damus.io", "wss://nos.lol"}

GROUP_MSG == 20100

DM == 20101

VOTE == 20102

SHARE == 20103

PRESENCE == 20104

MyName == "SwiftFox41"

MyPubkey == "pk-me"

(***************************************************************************)
(* Strings of the model.                                                   *)
(***************************************************************************)
RinkSecret == "c93a18d1a3e18017d7b3d13feaa71ab17d9d33e77f900477d6b36a6212f36907"

RinkSecretUpper == "C93A18D1A3E18017D7B3D13FEAA71AB17D9D33E77F900477D6B36A6212F36907"

PondSecret == "4e7914b0df8068b79cdc10d387f294c12a245d3982ab6fb8ae57c19e62713e41"

LeisureSecret == "b3a5cd3355ab041e101ef5c06de8c736ba40aae257afda91765d82c3a79a1728"

ShinnySecret == "35ccf5bba4149b88284846d0905d45164739e4ae93da1e2c0abeff67c04f24b9"

FigureSecret == "e81da7795de973360c44525da8ef59ea3b85ab27e897155b36cb0a2836caa51b"

GeneralSecret == "7f1af508e1ce919c41643410087735b2b2cbc122794282233c9bfb4b4a42a150"

RandomA == "a54dca182530bb1d6d132cded6237b2ed91e3f721fcb1971174494d6493c9d5c"

RandomB == "3460be31201e69fedaa0eee8b9997f5c7c2999fdafe593253cd654af4dfad714"

RandomC == "27a0aeb3fee9232f8af2211f9ee491c5b10becb5563bfc1e6f93427ecbc8fe29"

RandomD == "55e5cd8e46dc8ed4b7c2764d2a5a4d767706f85d8690024ad6bda3401be9c8cb"

HashOfRinkSecret == "f56084f8fb48e7421c0ced05bd5ad3f826fee327800ecf541b27bd299136e82c"

HashOfRinkSecretUpper == "0beef7a3ff45595eeccebce9cbed3477127e12486f9e42790c100411f00fe3c7"

\* The 64-character hexadecimal strings among the model's strings.
Hex64 == {RinkSecret, RinkSecretUpper, PondSecret, LeisureSecret, ShinnySecret,
          FigureSecret, GeneralSecret,
          RandomA, RandomB, RandomC, RandomD, HashOfRinkSecret, HashOfRinkSecretUpper}

\* Crypto.sha256 (crypto.subtle.digest('SHA-256'), lower-case hex), tabulated.
sha256(data) ==
    CASE data = "rink2025" -> RinkSecret
      [] data = "pond" -> PondSecret
      [] data = "toronto-leisure-skate-public-2025" -> LeisureSecret
      [] data = "toronto-shinny-hockey-public-2025" -> ShinnySecret
      [] data = "toronto-figure-skate-public-2025" -> FigureSecret
      [] data = "toronto-skating-general-public-2025" -> GeneralSecret
      [] data = RinkSecret -> HashOfRinkSecret
      [] data = RinkSecretUpper -> HashOfRinkSecretUpper

\* Crypto.deriveSecret
deriveSecret(passphrase) == sha256(passphrase)

\* Crypto.hashSync(...).slice(0, 12), tabulated for the 64-hex strings above.
deriveGroupId(secret) ==
    CASE secret = RinkSecret -> "71ffd831d65f"
      [] secret = PondSecret -> "96c2bfc8d28b"
      [] secret = LeisureSecret -> "7933a66ae14a"
      [] secret = ShinnySecret -> "56bbc9cab097"
      [] secret = FigureSecret -> "aca2cbd0c319"
      [] secret = GeneralSecret -> "95e63b24b253"
      [] secret = RandomA -> "83aa869b3647"
      [] secret = RandomB -> "6abc51d7b82f"
      [] secret = RandomC -> "15c89e308c2d"
      [] secret = RandomD -> "6d68140024fa"
      [] secret = HashOfRinkSecret -> "112210a3aa33"
      [] secret = HashOfRinkSecretUpper -> "09a9fd7ce47e"

\* String.prototype.toLowerCase on the model's 64-hex strings.
toLowerCase(s) == IF s = RinkSecretUpper THEN RinkSecret ELSE s

\* secret.length === 64 && /^[0-9a-f]+$/i.test(secret)
IsHex64(s) == s \in Hex64

\* createGroup: options.password ? await Crypto.sha256(options.password) : Crypto.randomHex(32)
CreateSecretOfPassword(password) == sha256(password)

\* A joinGroup that normalises its first argument even when a password is given.
JoinSecretIgnoresPassword(secret, password) ==
    IF IsHex64(secret) THEN toLowerCase(secret) ELSE sha256(secret)

\* joinGroup: the normalisation of (secret, password) to the stored secret.
JoinSecret(secret, password) ==
    IF password # Null THEN sha256(password)
    ELSE IF IsHex64(secret) THEN toLowerCase(secret)
    ELSE sha256(secret)

\* joinGroup awaits Crypto.sha256 in these cases only.
JoinAwaits(secret, password) == password # Null \/ ~IsHex64(secret)


(***************************************************************************)
(* The state object of chat.js, the timers and sockets it owns, the local  *)
(* storage record, and what the model records about the last step.         *)
(***************************************************************************)
VARIABLES
    groups,            \* state.groups: groupId -> group record
    publicRooms,       \* state.publicRooms: groupId -> room record
    activeGroupId,     \* state.activeGroupId (Null when none)
    activeIsPublic,    \* state.activeIsPublic
    dmThreads,         \* state.dmThreads: pubkey -> thread record
    activeDmRecipient, \* state.activeDmRecipient (Null when none)
    connections,       \* state.connections: groupId -> the sockets array registered
    sockets,           \* the WebSockets not yet closed: <<array, relay>> -> socket record
    reconnectTimers,   \* pending setTimeout(..., 5000) of ws.onclose
    announceTimers,    \* pending setTimeout(..., 1000) of createGroup / joinGroup
    presenceTimers,    \* state.presenceTimers: groupId -> interval timer
    intervals,         \* the interval timers that are running: timer -> groupId
    storage,           \* localStorage: the records written by saveState
    wire,              \* the wire events written to relay sockets
    groupKeys,         \* Object.keys(state.groups): the ids in insertion order
    roomKeys,          \* Object.keys(state.publicRooms): the ids in insertion order
    pending,           \* async createGroup / joinGroup calls suspended at their await
    lastOp,            \* the last handler that ran, its arguments and how it ended
    notified,          \* whether the last handler called notifyUpdate
    steps,             \* handlers run so far (bounds the exploration)
    pushes,            \* history: groupId -> number of group.messages.push(msg) so far
    clients,           \* two independent clients' stored secret and group id (key derivation)
    probe,             \* inputs and results of the Crypto functions applied on their own
    chatNetwork,       \* the ChatNetwork object of chat-network.js and its sockets and timers
    timeline,          \* the timeline app: its state S, its subscriptions and window._rt
    ballots            \* history: the vote events voteTime published, and which came back

regVars == <<groups, publicRooms, groupKeys, roomKeys, activeGroupId, activeIsPublic,
             dmThreads, activeDmRecipient>>

netVars == <<connections, sockets, reconnectTimers, announceTimers, presenceTimers, intervals, wire>>

vars == <<groups, publicRooms, groupKeys, roomKeys, activeGroupId, activeIsPublic, dmThreads, activeDmRecipient,
          connections, sockets, reconnectTimers, announceTimers, presenceTimers, intervals,
          storage, wire, pending, lastOp, notified, steps, pushes, clients, probe, chatNetwork, timeline, ballots>>

Range(f) == {f[x] : x \in DOMAIN f}

\* The _processedIds field: absent, a Set (in insertion order), or the plain
\* object {} that JSON.stringify / JSON.parse make of a Set.
PidUndefined == [tag |-> "undefined", ids |-> <<>>]

PidSet(ids) == [tag |-> "Set", ids |-> ids]

PidObject == [tag |-> "Object", ids |-> <<>>]

\* The group record created by createGroup, joinGroup and joinPublicRoom
\* (createdAt, emoji and roomKey are written once and never read by the model).
NewGroup(id, name, secret, hasPassword, isPublic) ==
    [id |-> id, name |-> name, secret |-> secret, hasPassword |-> hasPassword,
     isPublic |-> isPublic,
     members |-> <<MyName>>, memberPubkeys |-> (MyName :> MyPubkey),
     messages |-> <<>>, votes |-> EmptyFn, connected |-> FALSE,
     unread |-> 0, processedIds |-> PidUndefined, lastSeen |-> EmptyFn]

\* The part of the state that handleEvent and its helpers mutate.
Mem(g, p, dm, n) == [g |-> g, p |-> p, dm |-> dm, pushes |-> n]

\* getGroupOrRoom: state.groups[groupId] || state.publicRooms[groupId] || null
GroupOrRoomLoc(S, gid) ==
    IF gid \in DOMAIN S.g THEN "g" ELSE IF gid \in DOMAIN S.p THEN "p" ELSE "none"

getGroupOrRoom(S, gid) == IF gid \in DOMAIN S.g THEN S.g[gid] ELSE S.p[gid]

PutGroupOrRoom(S, gid, group) ==
    IF gid \in DOMAIN S.g THEN [S EXCEPT !.g[gid] = group] ELSE [S EXCEPT !.p[gid] = group]

\* isPublic ? state.publicRooms[groupId] : state.groups[groupId]
HasOwn(S, gid, isPublic) == IF isPublic THEN gid \in DOMAIN S.p ELSE gid \in DOMAIN S.g

Own(S, gid, isPublic) == IF isPublic THEN S.p[gid] ELSE S.g[gid]

PutOwn(S, gid, isPublic, group) ==
    IF isPublic THEN [S EXCEPT !.p[gid] = group] ELSE [S EXCEPT !.g[gid] = group]

(***************************************************************************)
(* addMessage.                                                             *)
(***************************************************************************)
\* An addMessage without the messages.some(m => m.id === msg.id) test.
HasIdNever(messages, id) == FALSE

\* group.messages.some(m => m.id === msg.id)
HasId(messages, id) == \E i \in 1..Len(messages) : messages[i].id = id

\* An addMessage without the slice(-MAX_MESSAGES).
EvictNothing(messages) == messages

\* if (length > MAX_MESSAGES) group.messages = group.messages.slice(-MAX_MESSAGES)
Evict(messages) ==
    IF Len(messages) > MAX_MESSAGES
    THEN SubSeq(messages, Len(messages) - MAX_MESSAGES + 1, Len(messages))
    ELSE messages

\* One step of the stable sort: m goes after every element whose ts is <= m.ts.
InsertByTs(sorted, m) ==
    LET k == Cardinality({i \in 1..Len(sorted) : sorted[i].ts <= m.ts})
    IN SubSeq(sorted, 1, k) \o <<m>> \o SubSeq(sorted, k + 1, Len(sorted))

RECURSIVE StableSortByTs(_)
StableSortByTs(messages) ==
    IF messages = <<>> THEN <<>>
    ELSE InsertByTs(StableSortByTs(SubSeq(messages, 1, Len(messages) - 1)),
                    messages[Len(messages)])

\* An addMessage without the final sort.
SortNothing(messages) == messages

\* group.messages.sort((a, b) => a.ts - b.ts)
SortByTs(messages) == StableSortByTs(messages)

addMessage(S, active, gid, msg) ==
    IF GroupOrRoomLoc(S, gid) = "none" THEN S
    ELSE LET group == getGroupOrRoom(S, gid) IN
         IF HasId(group.messages, msg.id) THEN S
         ELSE LET stored == SortByTs(Evict(Append(group.messages, msg)))
                  unread == IF ~msg.mine /\ ~msg.system /\ active # gid
                            THEN group.unread + 1 ELSE group.unread
                  S2 == PutGroupOrRoom(S, gid, [group EXCEPT !.messages = stored,
                                                             !.unread = unread])
              IN [S2 EXCEPT !.pushes = [k \in DOMAIN @ \cup {gid} |->
                                          IF k = gid THEN (IF gid \in DOMAIN @ THEN @[gid] ELSE 0) + 1
                                          ELSE @[k]]]

\* trackMember
trackMember(S, gid, name, pubkey) ==
    IF GroupOrRoomLoc(S, gid) = "none" THEN S
    ELSE LET group == getGroupOrRoom(S, gid)
             members == IF name \in Range(group.members) THEN group.members
                        ELSE Append(group.members, name)
             keys == [n \in DOMAIN group.memberPubkeys \cup {name} |->
                         IF n = name THEN pubkey ELSE group.memberPubkeys[n]]
         IN PutGroupOrRoom(S, gid, [group EXCEPT !.members = members, !.memberPubkeys = keys])

(***************************************************************************)
(* Wire events.  NostrTools is an external library, modelled by its        *)
(* contract: verifyEvent accepts an event iff its id and signature match   *)
(* its content (sigOk), and NIP-44 decryption succeeds iff the ciphertext  *)
(* was made with the same conversation key.                                *)
(***************************************************************************)
NoDm == [a |-> Null, b |-> Null, json |-> FALSE, text |-> Undefined]

\* The JSON payload that publishEvent encrypts (json = FALSE: not valid JSON).
Payload(text, from, system) ==
    [json |-> TRUE, text |-> text, from |-> from, system |-> system,
     programIndex |-> 0, voted |-> FALSE, toName |-> Undefined, dmPayload |-> NoDm]

Event(id, pubkey, created_at, kind, ptag, sigOk, key, payload) ==
    [id |-> id, pubkey |-> pubkey, created_at |-> created_at, kind |-> kind,
     ptag |-> ptag, sigOk |-> sigOk, content |-> [key |-> key, plain |-> payload]]

NoEvent == Event(0, Null, 0, 0, Null, FALSE, Null, Payload(Undefined, Undefined, FALSE))

\* NostrTools.verifyEvent
verifyEvent(ev) == ev.sigOk

\* Crypto.hexToBytes: parseInt(pair, 16) reads either letter case, so the
\* bytes are named by the lower-case hex string.
hexToBytes(hex) == toLowerCase(hex)

\* nip44.getConversationKey(secretBytes, getPublicKey(secretBytes)): the key
\* both encryptForGroup and decryptForGroup derive, named by the bytes it is
\* derived from.
GroupConversationKey(groupSecretHex) == hexToBytes(groupSecretHex)

\* What a decrypt function hands back: a string, null, or an exception.
Decrypted(plain) == [outcome |-> "string", plain |-> plain]

DecryptNull == [outcome |-> "null"]

DecryptThrows == [outcome |-> "throws"]

\* Crypto.encryptForGroup: nip44.encrypt(plaintext, conversationKey)
encryptForGroup(plaintext, groupSecretHex) ==
    [key |-> GroupConversationKey(groupSecretHex), plain |-> plaintext]

\* A decryptForGroup without its try/catch.
decryptForGroupNoCatch(ciphertext, groupSecretHex) ==
    IF ciphertext.key = GroupConversationKey(groupSecretHex)
    THEN Decrypted(ciphertext.plain) ELSE DecryptThrows

\* Crypto.decryptForGroup: nip44.decrypt throws under another conversation
\* key (the MAC does not verify); the catch turns that into null.
decryptForGroup(ciphertext, groupSecretHex) ==
    IF ciphertext.key = GroupConversationKey(groupSecretHex)
    THEN Decrypted(ciphertext.plain) ELSE DecryptNull

\* A decryptForGroup that returns the plaintext under any secret.
DecryptAlways(content, secret) == TRUE

\* Crypto.decryptForGroup returns a string (not null) iff the keys agree.
DecryptForGroupOk(content, secret) == decryptForGroup(content, secret).outcome = "string"

\* Crypto.encryptDm: nip44.encrypt under the conversation key of (sender's
\* secret key, recipient's public key); a secret key is named by its public
\* key, the plaintext is JSON.stringify({text}).
encryptDm(text, sender, recipient) == [a |-> sender, b |-> recipient, json |-> TRUE, text |-> text]

\* A decryptDm whose conversation key is not the one of encryptDm for the
\* sender: only the recipient's side of the pair opens the payload.
DecryptDmOneSided(dmPayload, mine, theirs) == dmPayload.b = mine /\ dmPayload.a = theirs

\* Crypto.decryptDm: the conversation key of (my secret key, their public key).
DecryptDmOk(dmPayload, mine, theirs) == {dmPayload.a, dmPayload.b} = {mine, theirs}

\* Filter.clean / Filter.check on the model's texts, with "darn" the one word
\* of window.PROFANITY_LIST.
FilterClean(text) == IF text = "darn rink" THEN "**** rink" ELSE text

FilterCheck(text) == text = "darn rink"

(***************************************************************************)
(* handleEvent and handleDmEvent.  Each returns the memory it leaves, how  *)
(* it ended and whether it reached saveState / notifyUpdate.               *)
(***************************************************************************)
Res(S, outcome, saved) == [S |-> S, outcome |-> outcome, saved |-> saved]

DM_MAX == 2

\* _processedIds.add(id); if (size > 500) keep the last 250
ProcessedAdd(ids, id) ==
    LET added == Append(ids, id)
    IN IF Len(added) > PROCESSED_MAX
       THEN SubSeq(added, Len(added) - PROCESSED_KEEP + 1, Len(added))
       ELSE added

RemoveFirst(seq, x) ==
    IF x \notin Range(seq) THEN seq
    ELSE LET i == CHOOSE k \in 1..Len(seq) :
                      seq[k] = x /\ \A j \in 1..(k - 1) : seq[j] # x
         IN SubSeq(seq, 1, i - 1) \o SubSeq(seq, i + 1, Len(seq))

\* case VOTE of handleEvent, on group.votes
ApplyVote(votes, idx, from, voted) ==
    LET cur == IF idx \in DOMAIN votes THEN votes[idx] ELSE <<>>
        new == IF voted /\ from \notin Range(cur) THEN Append(cur, from)
               ELSE IF ~voted THEN RemoveFirst(cur, from)
               ELSE cur
    IN [i \in DOMAIN votes \cup {idx} |-> IF i = idx THEN new ELSE votes[i]]

\* A handleDmEvent that goes on for any sender and recipient.
DmConcernsAnyone(ev) == TRUE

\* isForMe || isFromMe
DmConcernsMe(ev) == ev.ptag = MyPubkey \/ ev.pubkey = MyPubkey

\* A handleDmEvent that counts every new message as unread.
CountsUnreadAlways(isFromMe, activeDm, otherPubkey) == TRUE

\* if (!isFromMe && state.activeDmRecipient !== otherPubkey)
CountsUnread(isFromMe, activeDm, otherPubkey) == ~isFromMe /\ activeDm # otherPubkey

handleDmEvent(S, activeDm, gid, ev, content) ==
    IF ev.ptag = Null THEN Res(S, "applied", TRUE)
    ELSE
    LET recipientPubkey == ev.ptag
        isForMe == recipientPubkey = MyPubkey
        isFromMe == ev.pubkey = MyPubkey
        otherPubkey == IF isFromMe THEN recipientPubkey ELSE ev.pubkey
        ok == IF isForMe THEN DecryptDmOk(content.dmPayload, MyPubkey, ev.pubkey)
              ELSE DecryptDmOk(content.dmPayload, MyPubkey, recipientPubkey)
    IN
    IF ~DmConcernsMe(ev) THEN Res(S, "applied", TRUE)
    ELSE IF ~ok THEN Res(S, "applied", TRUE)
    ELSE IF ~content.dmPayload.json THEN Res(S, "exception", FALSE)
    ELSE
    LET thread0 == IF otherPubkey \in DOMAIN S.dm THEN S.dm[otherPubkey]
                   ELSE [groupId |-> gid,
                         name |-> IF isFromMe THEN content.toName ELSE content.from,
                         messages |-> <<>>, unread |-> 0]
        isNew == ~HasId(thread0.messages, ev.id)
        pushed == Append(thread0.messages,
                         [id |-> ev.id, text |-> FilterClean(content.dmPayload.text),
                          from |-> content.from, mine |-> isFromMe,
                          ts |-> ev.created_at * 1000])
        cut == IF Len(pushed) > DM_MAX
               THEN SubSeq(pushed, Len(pushed) - DM_MAX + 1, Len(pushed)) ELSE pushed
        counts == CountsUnread(isFromMe, activeDm, otherPubkey)
        thread1 == IF ~isNew THEN thread0
                   ELSE [thread0 EXCEPT !.messages = SortByTs(cut),
                                        !.unread = IF counts THEN @ + 1 ELSE @]
        dm1 == [k \in DOMAIN S.dm \cup {otherPubkey} |->
                   IF k = otherPubkey THEN thread1 ELSE S.dm[k]]
    IN IF isNew /\ counts /\ content.dmPayload.text = Undefined
       THEN Res([S EXCEPT !.dm = dm1], "exception", FALSE)
       ELSE Res([S EXCEPT !.dm = dm1], "applied", TRUE)

\* The switch of handleEvent, after JSON.parse succeeded.
Dispatch(S, active, activeDm, gid, ev, isPublic) ==
    LET content == ev.content.plain
        isMine == ev.pubkey = MyPubkey
        ts == ev.created_at * 1000
    IN
    CASE ev.kind = GROUP_MSG ->
           LET S2 == addMessage(S, active, gid,
                        [id |-> ev.id, type |-> "chat", text |-> FilterClean(content.text),
                         from |-> content.from, fromPubkey |-> ev.pubkey, mine |-> isMine,
                         system |-> content.system, ts |-> ts])
               S3 == trackMember(S2, gid, content.from, ev.pubkey)
           IN IF ~isMine /\ ~content.system /\ active # gid /\ content.text = Undefined
              THEN Res(S3, "exception", FALSE)
              ELSE Res(S3, "applied", TRUE)
      [] ev.kind = SHARE ->
           LET S2 == addMessage(S, active, gid,
                        [id |-> ev.id, type |-> "share", text |-> content.text,
                         from |-> content.from, fromPubkey |-> ev.pubkey, mine |-> isMine,
                         system |-> FALSE, ts |-> ts])
           IN Res(trackMember(S2, gid, content.from, ev.pubkey), "applied", TRUE)
      [] ev.kind = VOTE ->
           LET group == Own(S, gid, isPublic)
               votes == ApplyVote(group.votes, content.programIndex, content.from, content.voted)
           IN Res(PutOwn(S, gid, isPublic, [group EXCEPT !.votes = votes]), "applied", TRUE)
      [] ev.kind = DM -> handleDmEvent(S, activeDm, gid, ev, content)
      [] ev.kind = PRESENCE ->
           LET S2 == trackMember(S, gid, content.from, ev.pubkey)
               group == Own(S2, gid, isPublic)
               seen == [n \in DOMAIN group.lastSeen \cup {content.from} |->
                          IF n = content.from THEN ts ELSE group.lastSeen[n]]
           IN Res(PutOwn(S2, gid, isPublic, [group EXCEPT !.lastSeen = seen]), "applied", TRUE)
      [] OTHER -> Res(S, "applied", TRUE)

handleEvent(S, active, activeDm, gid, ev, isPublic) ==
    IF ~HasOwn(S, gid, isPublic) THEN Res(S, "nogroup", FALSE)
    ELSE
    LET group == Own(S, gid, isPublic) IN
    IF group.processedIds.tag = "Object" THEN Res(S, "throws", FALSE)
    ELSE IF ev.id \in Range(group.processedIds.ids)
         THEN Res(PutOwn(S, gid, isPublic,
                         [group EXCEPT !.processedIds = PidSet(group.processedIds.ids)]),
                  "seen", FALSE)
    ELSE
    LET S1 == PutOwn(S, gid, isPublic,
                     [group EXCEPT !.processedIds =
                          PidSet(ProcessedAdd(group.processedIds.ids, ev.id))])
    IN IF ~verifyEvent(ev) THEN Res(S1, "badsig", FALSE)
       ELSE IF ~DecryptForGroupOk(ev.content, group.secret) THEN Res(S1, "nodecrypt", FALSE)
       ELSE IF ~ev.content.plain.json THEN Res(S1, "badjson", FALSE)
       ELSE Dispatch(S1, active, activeDm, gid, ev, isPublic)

(***************************************************************************)
(* saveState: JSON.stringify turns every Set into {}.                      *)
(***************************************************************************)
Stringify(group) ==
    [group EXCEPT !.processedIds = IF @.tag = "undefined" THEN @ ELSE PidObject]

Saved(g, p, active, isPub, dm) ==
    [groups |-> [k \in DOMAIN g |-> Stringify(g[k])],
     activeGroupId |-> active, activeIsPublic |-> isPub, dmThreads |-> dm,
     publicRooms |-> [k \in DOMAIN p |-> Stringify(p[k])]]

\* What the model records of a step: the handler, its argument (for joinGroup
\* the secret its arguments denote, for joinPublicRoom the room key), its
\* group, the event (or NoEvent), how it ended, and whether an exception left
\* the handler.
OpArg(op, arg, gid, ev, result, escaped) ==
    [op |-> op, arg |-> arg, gid |-> gid, ev |-> ev, result |-> result, escaped |-> escaped]

Op(op, gid, ev, result, escaped) == OpArg(op, Null, gid, ev, result, escaped)

\* ws.onmessage of a socket of group gid: handleEvent inside try { } catch {}.
OnMessage(gid, isPublic, ev) ==
    /\ \E w \in DOMAIN sockets :
          /\ sockets[w].gid = gid
          /\ sockets[w].isPublic = isPublic
          /\ sockets[w].readyState = "OPEN"
    /\ LET r == handleEvent(Mem(groups, publicRooms, dmThreads, pushes), activeGroupId,
                            activeDmRecipient, gid, ev, isPublic)
       IN /\ groups' = r.S.g
          /\ publicRooms' = r.S.p
          /\ dmThreads' = r.S.dm
          /\ storage' = IF r.saved
                        THEN Saved(r.S.g, r.S.p, activeGroupId, activeIsPublic, r.S.dm)
                        ELSE storage
          /\ notified' = r.saved
          /\ pushes' = r.S.pushes
          /\ lastOp' = Op("onmessage", gid, ev, r.outcome, FALSE)
    /\ ballots' = [ballots EXCEPT
                      !.back = @ \cup {k \in 1..Len(ballots.sent) : ballots.sent[k] = ev}]
    /\ UNCHANGED <<groupKeys, roomKeys, activeGroupId, activeIsPublic, activeDmRecipient,
                   netVars, pending, clients, probe, chatNetwork, timeline>>

(***************************************************************************)
(* The relay transport.  A sockets array is named by a number; a socket by *)
(* its array and relay.  A socket leaves `sockets` when its close event    *)
(* has been handled, so an array holds the sockets that still name it.     *)
(***************************************************************************)
Sock(gid, isPublic, relay, arr, readyState) ==
    [gid |-> gid, isPublic |-> isPublic, relay |-> relay, arr |-> arr, readyState |-> readyState]

Sent(gid, kind, what) == [gid |-> gid, kind |-> kind, what |-> what]

\* The transport state that the helpers below mutate.
Net(c, s, pt, iv, w) ==
    [connections |-> c, sockets |-> s, presenceTimers |-> pt, intervals |-> iv, wire |-> w]

NetNow == Net(connections, sockets, presenceTimers, intervals, wire)

Without(f, k) == [x \in DOMAIN f \ {k} |-> f[x]]

With(f, k, v) == [x \in DOMAIN f \cup {k} |-> IF x = k THEN v ELSE f[x]]

SmallestFree(used) == CHOOSE n \in 1..(Cardinality(used) + 1) :
                          n \notin used /\ \A m \in 1..(n - 1) : m \in used

\* disconnectFromRelays
disconnectFromRelays(N, gid) ==
    LET closing == IF gid \in DOMAIN N.connections
                   THEN {w \in DOMAIN N.sockets : N.sockets[w].arr = N.connections[gid]}
                   ELSE {}
        hasTimer == gid \in DOMAIN N.presenceTimers
    IN [N EXCEPT
          !.sockets = [w \in DOMAIN @ |->
                          IF w \in closing THEN [@[w] EXCEPT !.readyState = "CLOSING"] ELSE @[w]],
          !.connections = Without(@, gid),
          !.intervals = IF hasTimer THEN Without(@, N.presenceTimers[gid]) ELSE @,
          !.presenceTimers = Without(@, gid)]

\* connectToRelays, for a group that exists (exists = FALSE: the early return)
connectToRelays(N, exists, gid, isPublic) ==
    IF ~exists THEN N
    ELSE LET N1 == disconnectFromRelays(N, gid)
             arr == SmallestFree({N1.sockets[w].arr : w \in DOMAIN N1.sockets}
                                 \cup Range(N1.connections))
             new == {<<arr, url>> : url \in RELAYS}
         IN [N1 EXCEPT
               !.sockets = [w \in DOMAIN @ \cup new |->
                               IF w \in new THEN Sock(gid, isPublic, w[2], arr, "CONNECTING")
                               ELSE @[w]],
               !.connections = With(@, gid, arr)]

\* Some socket of the array registered for gid is OPEN.
HasOpenSocket(N, gid) ==
    /\ gid \in DOMAIN N.connections
    /\ \E w \in DOMAIN N.sockets :
          N.sockets[w].arr = N.connections[gid] /\ N.sockets[w].readyState = "OPEN"

\* publishEvent, for a group that getGroupOrRoom finds (exists)
publishEvent(N, exists, gid, kind, what) ==
    IF exists /\ HasOpenSocket(N, gid)
    THEN [N EXCEPT !.wire = @ \cup {Sent(gid, kind, what)}]
    ELSE N

\* startPresence
startPresence(N, exists, gid) ==
    LET N1 == publishEvent(N, exists, gid, PRESENCE, "presence")
        timer == SmallestFree(DOMAIN N1.intervals)
    IN [N1 EXCEPT !.intervals = With(@, timer, gid),
                  !.presenceTimers = With(@, gid, timer)]

SetNet(N) ==
    /\ connections' = N.connections
    /\ sockets' = N.sockets
    /\ presenceTimers' = N.presenceTimers
    /\ intervals' = N.intervals
    /\ wire' = N.wire

Exists(gid) == gid \in DOMAIN groups \/ gid \in DOMAIN publicRooms

\* getConnectionStatus(groupId)
getConnectionStatus(gid) ==
    IF Exists(gid) /\ getGroupOrRoom(Mem(groups, publicRooms, dmThreads, pushes), gid).connected
    THEN "connected" ELSE "disconnected"

\* ws.onopen
SocketOpen(w) ==
    /\ w \in DOMAIN sockets
    /\ sockets[w].readyState = "CONNECTING"
    /\ sockets' = [sockets EXCEPT ![w].readyState = "OPEN"]
    /\ LET gid == sockets[w].gid IN
       IF sockets[w].isPublic
       THEN /\ publicRooms' = IF gid \in DOMAIN publicRooms
                              THEN [publicRooms EXCEPT ![gid].connected = TRUE] ELSE publicRooms
            /\ groups' = groups
       ELSE /\ groups' = IF gid \in DOMAIN groups
                         THEN [groups EXCEPT ![gid].connected = TRUE] ELSE groups
            /\ publicRooms' = publicRooms
    /\ notified' = TRUE
    /\ lastOp' = Op("onopen", sockets[w].gid, NoEvent, "ok", FALSE)
    /\ UNCHANGED <<groupKeys, roomKeys, activeGroupId, activeIsPublic, dmThreads,
                   activeDmRecipient, connections, reconnectTimers, announceTimers,
                   presenceTimers, intervals, wire, storage, pending, steps, pushes, clients, probe, chatNetwork, timeline, ballots>>

\* The callback of setTimeout(..., 1000) in createGroup / joinGroup.
AnnounceTimeout(t) ==
    /\ t \in announceTimers
    /\ announceTimers' = announceTimers \ {t}
    /\ SetNet(startPresence(publishEvent(NetNow, Exists(t.gid), t.gid, GROUP_MSG, t.what),
                            Exists(t.gid), t.gid))
    /\ notified' = FALSE
    /\ lastOp' = Op("timeout", t.gid, NoEvent, "ok", FALSE)
    /\ UNCHANGED <<regVars, reconnectTimers, storage, pending, steps, pushes, clients, probe, chatNetwork, timeline, ballots>>

\* ws.onclose: the socket leaves its array; when the array is empty and the
\* group still exists, the group is marked disconnected and a reconnect is
\* scheduled.
SocketClose(w) ==
    /\ w \in DOMAIN sockets
    /\ LET so == sockets[w]
           rest == {x \in DOMAIN sockets \ {w} : sockets[x].arr = so.arr}
           alive == IF so.isPublic THEN so.gid \in DOMAIN publicRooms
                    ELSE so.gid \in DOMAIN groups
           last == rest = {} /\ alive
       IN /\ sockets' = Without(sockets, w)
          /\ groups' = IF last /\ ~so.isPublic
                       THEN [groups EXCEPT ![so.gid].connected = FALSE] ELSE groups
          /\ publicRooms' = IF last /\ so.isPublic
                            THEN [publicRooms EXCEPT ![so.gid].connected = FALSE]
                            ELSE publicRooms
          /\ reconnectTimers' =
                IF last
                THEN reconnectTimers \cup
                        {[gid |-> so.gid, isPublic |-> so.isPublic,
                          n |-> SmallestFree({t.n : t \in reconnectTimers})]}
                ELSE reconnectTimers
          /\ notified' = last
          /\ lastOp' = Op("onclose", so.gid, NoEvent,
                          IF last THEN "reconnect" ELSE "ok", FALSE)
    /\ UNCHANGED <<groupKeys, roomKeys, activeGroupId, activeIsPublic, dmThreads,
                   activeDmRecipient, connections, announceTimers, presenceTimers,
                   intervals, wire, storage, pushes, clients, probe, chatNetwork, timeline, ballots>>

\* The callback of setTimeout(..., 5000) in ws.onclose.
ReconnectTimeout(t) ==
    /\ t \in reconnectTimers
    /\ reconnectTimers' = reconnectTimers \ {t}
    /\ SetNet(connectToRelays(NetNow,
                              IF t.isPublic THEN t.gid \in DOMAIN publicRooms
                              ELSE t.gid \in DOMAIN groups,
                              t.gid, t.isPublic))
    /\ notified' = FALSE
    /\ lastOp' = Op("reconnect", t.gid, NoEvent, "ok", FALSE)
    /\ UNCHANGED <<regVars, announceTimers, storage, pending, steps, pushes, clients, probe, chatNetwork, timeline, ballots>>

(***************************************************************************)
(* ChatNetwork (chat-network.js): one relay connection per group, relays   *)
(* tried in order.  chatNetwork holds the object's two maps and what the   *)
(* browser keeps for it: the WebSockets, the reconnect timers and the      *)
(* connect calls that await a socket.                                      *)
(***************************************************************************)
CN_RELAYS == <<"wss://relay.damus.io", "wss://nos.lol">>

NewChatNetwork ==
    [connections |-> EmptyFn, handlers |-> {}, relays |-> EmptyFn, timers |-> {},
     attempts |-> {}]

\* ChatNetwork.getStatus
getStatus(CN, groupId) ==
    IF groupId \notin DOMAIN CN.connections THEN "disconnected"
    ELSE LET readyState == CN.relays[CN.connections[groupId].relay].readyState IN
         IF readyState = "OPEN" THEN "connected"
         ELSE IF readyState = "CONNECTING" THEN "connecting"
         ELSE "disconnected"

\* _connectToRelay for the i-th relay: a new WebSocket, awaited by connect.
connectToRelay(CN, groupId, i) ==
    LET w == SmallestFree(DOMAIN CN.relays) IN
    [CN EXCEPT !.relays = With(@, w, [groupId |-> groupId, url |-> CN_RELAYS[i],
                                      readyState |-> "CONNECTING"]),
               !.attempts = @ \cup {[groupId |-> groupId, relay |-> w, i |-> i]}]

\* ChatNetwork.connect up to its first await.
connect(CN, groupId) ==
    IF groupId \in DOMAIN CN.connections THEN CN
    ELSE connectToRelay([CN EXCEPT !.handlers = @ \cup {groupId}], groupId, 1)

\* if (handler && !this.connections.has(groupId))
Reconnects(CN, groupId) == groupId \in CN.handlers /\ groupId \notin DOMAIN CN.connections

\* relay.onclose: the entry of the group, whichever socket it holds, is marked
\* disconnected and a reconnect is scheduled; the entry stays in the map.
onclose(CN, groupId) ==
    IF groupId \notin DOMAIN CN.connections THEN CN
    ELSE [CN EXCEPT !.connections[groupId].status = "disconnected",
                    !.timers = @ \cup {[groupId |-> groupId,
                                        n |-> SmallestFree({t.n : t \in CN.timers})]}]

\* A WebSocket that no map entry and no awaiting call holds is dropped.
Collect(CN) ==
    LET held == {CN.connections[g].relay : g \in DOMAIN CN.connections}
                \cup {a.relay : a \in CN.attempts}
                \cup {w \in DOMAIN CN.relays : CN.relays[w].readyState = "CLOSING"}
    IN [CN EXCEPT !.relays = [w \in DOMAIN CN.relays \cap held |-> CN.relays[w]]]

\* Only the ChatNetwork object changes.
ChatNetworkStep(op, groupId, result) ==
    /\ lastOp' = Op(op, groupId, NoEvent, result, FALSE)
    /\ notified' = FALSE
    /\ UNCHANGED <<regVars, netVars, storage, pending, pushes, clients, probe, timeline, ballots>>

\* ChatNetwork.connect(groupId, onMessage)
Connect(groupId) ==
    /\ chatNetwork' = connect(chatNetwork, groupId)
    /\ ChatNetworkStep("connect", groupId,
                       IF groupId \in DOMAIN chatNetwork.connections
                       THEN chatNetwork.connections[groupId].status ELSE "awaiting")

\* relay.onopen of a connecting socket: the entry is set and connect returns
\* 'connected'.
RelayOpen(w) ==
    /\ w \in DOMAIN chatNetwork.relays
    /\ chatNetwork.relays[w].readyState = "CONNECTING"
    /\ LET groupId == chatNetwork.relays[w].groupId IN
       /\ chatNetwork' =
             Collect([chatNetwork EXCEPT
                 !.relays[w].readyState = "OPEN",
                 !.connections = With(@, groupId,
                                      [relay |-> w, status |-> "connected",
                                       url |-> chatNetwork.relays[w].url]),
                 !.attempts = {a \in @ : a.relay # w}])
       /\ ChatNetworkStep("onopen", groupId, "connected")
    /\ UNCHANGED steps

\* A connecting socket fails (relay.onerror, or the connection timeout closes
\* it): the promise is rejected, connect goes on to the next relay or returns
\* 'disconnected', and relay.onclose runs.
RelayFail(w) ==
    /\ w \in DOMAIN chatNetwork.relays
    /\ chatNetwork.relays[w].readyState = "CONNECTING"
    /\ LET groupId == chatNetwork.relays[w].groupId
           a == CHOOSE a \in chatNetwork.attempts : a.relay = w
           CN1 == [chatNetwork EXCEPT !.attempts = @ \ {a},
                                      !.relays[w].readyState = "CLOSED"]
           CN2 == IF a.i < Len(CN_RELAYS) THEN connectToRelay(CN1, groupId, a.i + 1) ELSE CN1
       IN /\ chatNetwork' = Collect(onclose(CN2, groupId))
          /\ ChatNetworkStep("onerror", groupId,
                             IF a.i < Len(CN_RELAYS) THEN "awaiting" ELSE "disconnected")
    /\ UNCHANGED steps

\* relay.onclose of a socket that was open, or that disconnect closed.
RelayClose(w) ==
    /\ w \in DOMAIN chatNetwork.relays
    /\ chatNetwork.relays[w].readyState \in {"OPEN", "CLOSING"}
    /\ LET groupId == chatNetwork.relays[w].groupId IN
       /\ chatNetwork' = Collect(onclose([chatNetwork EXCEPT !.relays[w].readyState = "CLOSED"],
                                         groupId))
       /\ ChatNetworkStep("onclose", groupId, "ok")
    /\ UNCHANGED steps

\* The callback of setTimeout(() => this._reconnect(groupId), RECONNECT_DELAY_MS).
Reconnect(t) ==
    /\ t \in chatNetwork.timers
    /\ LET CN1 == [chatNetwork EXCEPT !.timers = @ \ {t}] IN
       /\ chatNetwork' = IF Reconnects(CN1, t.groupId) THEN connect(CN1, t.groupId) ELSE CN1
       /\ ChatNetworkStep("_reconnect", t.groupId,
                          IF Reconnects(CN1, t.groupId) THEN "awaiting" ELSE "nothing")
    /\ UNCHANGED steps

\* ChatNetwork.disconnect(groupId)
Disconnect(groupId) ==
    /\ chatNetwork' =
          IF groupId \notin DOMAIN chatNetwork.connections THEN chatNetwork
          ELSE LET w == chatNetwork.connections[groupId].relay IN
               Collect([chatNetwork EXCEPT
                   !.relays[w].readyState = IF @ = "CLOSED" THEN @ ELSE "CLOSING",
                   !.connections = Without(@, groupId),
                   !.handlers = @ \ {groupId}])
    /\ ChatNetworkStep("disconnect", groupId, "ok")

(***************************************************************************)
(* The timeline app (assets/js/app.refactored.js).  `timeline` holds the   *)
(* fields of S that a fetch writes, the callbacks connectToRelays was      *)
(* handed (subs: request id -> the author asked for and the relays that    *)
(* sent EOSE), the pending render timer window._rt (the request id its     *)
(* callback captured) and the list saveUsers wrote.  A callback stays      *)
(* callable after its sockets were closed: relays' messages may be queued. *)
(***************************************************************************)
MAX_TIME_RANGE_HOURS == 720

\* The relays that are enabled.
EnabledRelays == {"wss://relay.damus.io", "wss://nos.lol"}

TimelineUsers == {"pk-ann", "pk-bob"}

\* null, and a value that is not null
None == <<>>

Some(x) == <<x>>

NoUser == [postCount |-> 0, lastActivity |-> None]

NewTimeline ==
    [currentRequestId |-> 0, isLoading |-> FALSE, userEvents |-> <<>>, seenEventIds |-> {},
     parentEvents |-> EmptyFn, users |-> [u \in TimelineUsers |-> NoUser],
     selectedUser |-> Null, timeRangeHours |-> 24, subs |-> EmptyFn, rt |-> None,
     savedUsers |-> [u \in TimelineUsers |-> NoUser]]

\* A kind-1 note: its id, author, created_at and its e tags <<id, marker>>.
Note(id, pubkey, created_at, eTags) ==
    [id |-> id, pubkey |-> pubkey, created_at |-> created_at, eTags |-> eTags]

\* eTags.find(t => t[3] === 'reply')?.[1] || eTags[eTags.length - 1]?.[1]
ParentOf(eTags) ==
    IF \E i \in 1..Len(eTags) : eTags[i][2] = "reply"
    THEN eTags[CHOOSE i \in 1..Len(eTags) :
                  /\ eTags[i][2] = "reply"
                  /\ \A j \in 1..(i - 1) : eTags[j][2] # "reply"][1]
    ELSE eTags[Len(eTags)][1]

\* A callback that never finds itself superseded.
SupersededNever(reqId, current) == FALSE

\* reqId !== S.currentRequestId
Superseded(reqId, current) == reqId # current

\* fetchUserEvents(pubkey) up to the return of connectToRelays
fetchUserEvents(T, pubkey) ==
    LET reqId == T.currentRequestId + 1 IN
    [T EXCEPT !.currentRequestId = reqId,
              !.isLoading = TRUE,
              !.userEvents = <<>>,
              !.seenEventIds = {},
              !.parentEvents = EmptyFn,
              !.subs = With(@, reqId, [pubkey |-> pubkey, eose |-> {}])]

\* the event callback of the fetch with request id reqId
onEvent(T, reqId, event) ==
    LET pubkey == T.subs[reqId].pubkey IN
    IF Superseded(reqId, T.currentRequestId) \/ event.pubkey # pubkey
       \/ event.id \in T.seenEventIds
    THEN T
    ELSE LET isReply == Len(event.eTags) > 0
             parentEventId == IF isReply THEN Some(ParentOf(event.eTags)) ELSE None
             parents == IF isReply THEN With(T.parentEvents, event.id, parentEventId[1])
                        ELSE T.parentEvents
             pushed == Append(T.userEvents,
                              [id |-> event.id, created_at |-> event.created_at,
                               isReply |-> isReply, parentEventId |-> parentEventId])
             seenAt == IF T.users[pubkey].lastActivity = None THEN 0
                       ELSE T.users[pubkey].lastActivity[1]
             users == IF pubkey \in DOMAIN T.users
                      THEN [T.users EXCEPT ![pubkey] =
                               [postCount |-> Len(pushed),
                                lastActivity |-> Some(IF seenAt > event.created_at THEN seenAt
                                                      ELSE event.created_at)]]
                      ELSE T.users
         IN [T EXCEPT !.seenEventIds = @ \cup {event.id},
                      !.parentEvents = parents,
                      !.userEvents = pushed,
                      !.users = users,
                      !.rt = Some(reqId)]

\* the callback of the render timer: saveUsers and the renderers
onRenderTimeout(T) ==
    LET reqId == T.rt[1] IN
    IF Superseded(reqId, T.currentRequestId) THEN [T EXCEPT !.rt = None]
    ELSE [T EXCEPT !.rt = None, !.savedUsers = T.users]

\* connectToRelays' wrapper around the end-of-stream callback, run for relay
onEose(T, reqId, relay) ==
    LET eose == T.subs[reqId].eose \cup {relay}
        T1 == [T EXCEPT !.subs[reqId].eose = eose]
    IN IF Cardinality(eose) >= Cardinality(EnabledRelays)
          /\ ~Superseded(reqId, T.currentRequestId)
       THEN [T1 EXCEPT !.isLoading = FALSE]
       ELSE T1

\* setTimeRange(hours), and setCustomTimeRange after its checks
setRange(T, hours) ==
    LET T1 == [T EXCEPT !.currentRequestId = @ + 1, !.timeRangeHours = hours] IN
    IF T1.selectedUser # Null THEN fetchUserEvents(T1, T1.selectedUser) ELSE T1

\* parseInt(val) of the texts the custom range is given
Parsed(isNaN, n) == [isNaN |-> isNaN, n |-> n]

parseInt(val) ==
    CASE val = "48" -> Parsed(FALSE, 48)
      [] val = "0" -> Parsed(FALSE, 0)
      [] val = "721" -> Parsed(FALSE, 721)
      [] OTHER -> Parsed(TRUE, 0)

\* Only the timeline app changes.
TimelineStep(op, arg, result) ==
    /\ lastOp' = OpArg(op, arg, Null, NoEvent, result, FALSE)
    /\ notified' = FALSE
    /\ UNCHANGED <<regVars, netVars, storage, pending, pushes, clients, probe, chatNetwork, ballots>>

\* selectUser(pubkey)
SelectUser(pubkey) ==
    /\ timeline' = IF pubkey \in DOMAIN timeline.users
                   THEN fetchUserEvents([timeline EXCEPT !.selectedUser = pubkey], pubkey)
                   ELSE timeline
    /\ TimelineStep("selectUser", pubkey, "ok")

\* setTimeRange(hours)
SetTimeRange(hours) ==
    /\ timeline' = setRange(timeline, hours)
    /\ TimelineStep("setTimeRange", hours, "ok")

\* setCustomTimeRange(val)
SetCustomTimeRange(val) ==
    LET hours == parseInt(val) IN
    IF hours.isNaN \/ hours.n < 1 \/ hours.n > MAX_TIME_RANGE_HOURS
    THEN timeline' = timeline /\ TimelineStep("setCustomTimeRange", val, "invalid")
    ELSE timeline' = setRange(timeline, hours.n) /\ TimelineStep("setCustomTimeRange", val, "ok")

\* A relay's EVENT message reaches the callback of request reqId.
EventCallback(reqId, event) ==
    /\ reqId \in DOMAIN timeline.subs
    /\ timeline' = onEvent(timeline, reqId, event)
    /\ TimelineStep("onEvent", reqId, IF timeline' = timeline THEN "ignored" ELSE "stored")

\* The render timer fires.
RenderTimeout ==
    /\ timeline.rt # None
    /\ timeline' = onRenderTimeout(timeline)
    /\ TimelineStep("renderTimeout", timeline.rt[1], "ok")

\* A relay's EOSE message reaches the wrapper of request reqId.
EoseCallback(reqId, relay) ==
    /\ reqId \in DOMAIN timeline.subs
    /\ relay \notin timeline.subs[reqId].eose
    /\ timeline' = onEose(timeline, reqId, relay)
    /\ TimelineStep("onEose", reqId, "ok")

(***************************************************************************)
(* The group registry.  An async function runs to its first await in the   *)
(* caller's step; createGroup awaits Crypto.sha256 only with a password,   *)
(* joinGroup only when it hashes.  The continuation is a later step, and   *)
(* other handlers run in between.                                          *)
(***************************************************************************)
PUBLIC_ROOMS ==
    [leisure |-> [name |-> "Leisure Skating", passphrase |-> "toronto-leisure-skate-public-2025"],
     shinny |-> [name |-> "Shinny Hockey", passphrase |-> "toronto-shinny-hockey-public-2025"],
     figure |-> [name |-> "Figure Skating", passphrase |-> "toronto-figure-skate-public-2025"],
     general |-> [name |-> "General Chat", passphrase |-> "toronto-skating-general-public-2025"]]

\* state.publicRoomSecrets[roomKey], filled by init for every room
publicRoomSecrets(roomKey) == deriveSecret(PUBLIC_ROOMS[roomKey].passphrase)

\* A count that takes the public rooms in.
GroupCountWithRooms == Cardinality(DOMAIN groups) + Cardinality(DOMAIN publicRooms)

\* Object.keys(state.groups).length
GroupCount == Cardinality(DOMAIN groups)

\* A capacity test with > for >=.
AtCapacityOffByOne == GroupCount > MAX_GROUPS

\* Object.keys(state.groups).length >= CONFIG.MAX_GROUPS
AtCapacity == GroupCount >= MAX_GROUPS

\* A handler that throws (or returns) before it touched anything.
NoEffect(op, arg, result, escaped) ==
    /\ lastOp' = OpArg(op, arg, Null, NoEvent, result, escaped)
    /\ notified' = FALSE
    /\ UNCHANGED <<regVars, netVars, storage, pushes, clients, probe, chatNetwork, timeline, ballots>>

\* createGroup / joinGroup from the derived secret on: the switch to a group
\* that exists, or the new group, its connection and its delayed announcement.
EnterGroup(op, secret, name, hasPassword, what, found) ==
    LET gid == deriveGroupId(secret) IN
    IF gid \in DOMAIN groups
    THEN /\ activeGroupId' = gid
         /\ activeIsPublic' = FALSE
         /\ storage' = Saved(groups, publicRooms, gid, FALSE, dmThreads)
         /\ notified' = TRUE
         /\ lastOp' = OpArg(op, secret, gid, NoEvent, found, FALSE)
         /\ UNCHANGED <<groups, publicRooms, groupKeys, roomKeys, dmThreads, activeDmRecipient,
                        netVars, pushes, clients, probe, chatNetwork, timeline, ballots>>
    ELSE /\ groups' = With(groups, gid, NewGroup(gid, name, secret, hasPassword, FALSE))
         /\ groupKeys' = Append(groupKeys, gid)
         /\ activeGroupId' = gid
         /\ activeIsPublic' = FALSE
         /\ storage' = Saved(groups', publicRooms, gid, FALSE, dmThreads)
         /\ SetNet(connectToRelays(NetNow, TRUE, gid, FALSE))
         /\ announceTimers' = announceTimers \cup
               {[gid |-> gid, what |-> what,
                 n |-> SmallestFree({t.n : t \in announceTimers})]}
         /\ notified' = TRUE
         /\ lastOp' = OpArg(op, secret, gid, NoEvent, "ok", FALSE)
         /\ UNCHANGED <<publicRooms, roomKeys, dmThreads, activeDmRecipient, reconnectTimers,
                        pushes, clients, probe, chatNetwork, timeline, ballots>>

Call(op, secret, name, hasPassword) ==
    [op |-> op, secret |-> secret, name |-> name, hasPassword |-> hasPassword,
     n |-> SmallestFree({c.n : c \in pending})]

Suspend(call) ==
    /\ Cardinality(pending) < MaxPending
    /\ pending' = pending \cup {call}
    /\ NoEffect(call.op, call.secret, "awaiting", FALSE)

\* createGroup(options) up to its await, or to its end when it does not await.
CreateGroupCall(name, password, random) ==
    IF AtCapacity
    THEN NoEffect("createGroup", Null, "CapacityError", TRUE) /\ pending' = pending
    ELSE IF FilterCheck(name)
    THEN NoEffect("createGroup", Null, "InvalidName", TRUE) /\ pending' = pending
    ELSE IF password # Null
    THEN Suspend(Call("createGroup", CreateSecretOfPassword(password), name, TRUE))
    ELSE /\ EnterGroup("createGroup", random, name, FALSE, "created", "exists")
         /\ pending' = pending

\* joinGroup(secret, password, customName) up to its await, or to its end.
JoinGroupCall(secret, password, customName) ==
    LET name == IF customName = Null THEN "Skating Group" ELSE customName IN
    IF AtCapacity
    THEN NoEffect("joinGroup", JoinSecret(secret, password), "CapacityError", TRUE)
         /\ pending' = pending
    ELSE IF JoinAwaits(secret, password)
    THEN Suspend(Call("joinGroup", JoinSecret(secret, password), name, password # Null))
    ELSE /\ EnterGroup("joinGroup", JoinSecret(secret, password), name, FALSE,
                       "joined", "alreadyJoined")
         /\ pending' = pending

\* The continuation of a suspended createGroup / joinGroup.
Resume(call) ==
    /\ call \in pending
    /\ pending' = pending \ {call}
    /\ IF call.op = "createGroup"
       THEN EnterGroup("createGroup", call.secret, call.name, call.hasPassword,
                       "created", "exists")
       ELSE EnterGroup("joinGroup", call.secret, call.name, call.hasPassword,
                       "joined", "alreadyJoined")
    /\ UNCHANGED steps

joinPublicRoom(roomKey) ==
    IF roomKey \notin DOMAIN PUBLIC_ROOMS
    THEN NoEffect("joinPublicRoom", roomKey, "UnknownRoom", TRUE)
    ELSE
    LET secret == publicRoomSecrets(roomKey)
        gid == deriveGroupId(secret)
    IN
    IF gid \in DOMAIN publicRooms
    THEN /\ activeGroupId' = gid
         /\ activeIsPublic' = TRUE
         /\ storage' = Saved(groups, publicRooms, gid, TRUE, dmThreads)
         /\ notified' = TRUE
         /\ lastOp' = OpArg("joinPublicRoom", roomKey, gid, NoEvent, "alreadyJoined", FALSE)
         /\ UNCHANGED <<groups, publicRooms, groupKeys, roomKeys, dmThreads, activeDmRecipient,
                        netVars, pushes, clients, probe, chatNetwork, timeline, ballots>>
    ELSE /\ publicRooms' = With(publicRooms, gid,
                                NewGroup(gid, PUBLIC_ROOMS[roomKey].name, secret, FALSE, TRUE))
         /\ roomKeys' = Append(roomKeys, gid)
         /\ activeGroupId' = gid
         /\ activeIsPublic' = TRUE
         /\ storage' = Saved(groups, publicRooms', gid, TRUE, dmThreads)
         /\ SetNet(startPresence(connectToRelays(NetNow, TRUE, gid, TRUE), TRUE, gid))
         /\ notified' = TRUE
         /\ lastOp' = OpArg("joinPublicRoom", roomKey, gid, NoEvent, "ok", FALSE)
         /\ UNCHANGED <<groups, groupKeys, dmThreads, activeDmRecipient, reconnectTimers,
                        announceTimers, pushes, clients, probe, chatNetwork, timeline, ballots>>

RemoveKey(keys, k) == SelectSeq(keys, LAMBDA x : x # k)

\* A leaveGroup that announces the leave of a public room too.
AnnouncesLeaveAlways(isPublic) == TRUE

\* if (!isPublic) publishEvent(... left the group ...)
AnnouncesLeave(isPublic) == ~isPublic

leaveGroup(gid) ==
    LET isPublic == gid \in DOMAIN publicRooms IN
    IF ~Exists(gid) THEN NoEffect("leaveGroup", Null, "nogroup", FALSE)
    ELSE
    LET N1 == IF AnnouncesLeave(isPublic)
              THEN publishEvent(NetNow, TRUE, gid, GROUP_MSG, "left")
              ELSE NetNow
        g2 == IF isPublic THEN groups ELSE Without(groups, gid)
        p2 == IF isPublic THEN Without(publicRooms, gid) ELSE publicRooms
        gk == IF isPublic THEN groupKeys ELSE RemoveKey(groupKeys, gid)
        pk == IF isPublic THEN RemoveKey(roomKeys, gid) ELSE roomKeys
        active == IF activeGroupId # gid THEN activeGroupId
                  ELSE IF gk # <<>> THEN gk[1]
                  ELSE IF pk # <<>> THEN pk[1] ELSE Null
        isPub == IF activeGroupId # gid THEN activeIsPublic ELSE gk = <<>> /\ pk # <<>>
    IN /\ SetNet(disconnectFromRelays(N1, gid))
       /\ groups' = g2
       /\ publicRooms' = p2
       /\ groupKeys' = gk
       /\ roomKeys' = pk
       /\ activeGroupId' = active
       /\ activeIsPublic' = isPub
       /\ storage' = Saved(g2, p2, active, isPub, dmThreads)
       /\ notified' = TRUE
       /\ lastOp' = Op("leaveGroup", gid, NoEvent, "ok", FALSE)
       /\ UNCHANGED <<dmThreads, activeDmRecipient, reconnectTimers, announceTimers,
                      pushes, clients, probe, chatNetwork, timeline, ballots>>

\* A switchGroup that leaves the unread counter as it is.
ClearNothing(entries, gid) == entries

\* state.groups[groupId].unread = 0 / state.publicRooms[groupId].unread = 0
ClearUnread(entries, gid) == [entries EXCEPT ![gid].unread = 0]

switchGroup(gid) ==
    IF gid \in DOMAIN groups
    THEN /\ groups' = ClearUnread(groups, gid)
         /\ activeGroupId' = gid
         /\ activeIsPublic' = FALSE
         /\ activeDmRecipient' = Null
         /\ storage' = Saved(groups', publicRooms, gid, FALSE, dmThreads)
         /\ notified' = TRUE
         /\ lastOp' = Op("switchGroup", gid, NoEvent, "ok", FALSE)
         /\ UNCHANGED <<publicRooms, groupKeys, roomKeys, dmThreads, netVars, pushes, clients, probe, chatNetwork, timeline, ballots>>
    ELSE IF gid \in DOMAIN publicRooms
    THEN /\ publicRooms' = ClearUnread(publicRooms, gid)
         /\ activeGroupId' = gid
         /\ activeIsPublic' = TRUE
         /\ activeDmRecipient' = Null
         /\ storage' = Saved(groups, publicRooms', gid, TRUE, dmThreads)
         /\ notified' = TRUE
         /\ lastOp' = Op("switchGroup", gid, NoEvent, "ok", FALSE)
         /\ UNCHANGED <<groups, groupKeys, roomKeys, dmThreads, netVars, pushes, clients, probe, chatNetwork, timeline, ballots>>
    ELSE NoEffect("switchGroup", gid, "nogroup", FALSE)

(***************************************************************************)
(* init() of a new page load.  The page before is gone with its sockets,   *)
(* timers and suspended calls; loadState reads the record saveState wrote. *)
(* The fragment is empty or a secret of 64 hexadecimal characters, so that *)
(* joinGroup awaits nothing and init runs to its end in one step (the      *)
(* continuation after `await joinGroup` is a microtask).                   *)
(***************************************************************************)
\* for (const gid of Object.keys(...)) { connectToRelays(gid, isPublic); startPresence(gid); }
RECURSIVE ConnectAll(_, _, _)
ConnectAll(N, keys, isPublic) ==
    IF keys = <<>> THEN N
    ELSE ConnectAll(startPresence(connectToRelays(N, TRUE, Head(keys), isPublic),
                                  TRUE, Head(keys)),
                    Tail(keys), isPublic)

\* hash && hash.length >= 32; the fragments used here are empty or 64 hex
\* characters long
UsesFragment(hash) == hash # "" /\ IsHex64(hash)

init(hash) ==
    LET G0 == storage.groups
        P0 == storage.publicRooms
        keys0 == SelectSeq(groupKeys, LAMBDA k : k \in DOMAIN G0)
        rooms0 == SelectSeq(roomKeys, LAMBDA k : k \in DOMAIN P0)
        N0 == Net(EmptyFn, EmptyFn, EmptyFn, EmptyFn, wire)
        joins == UsesFragment(hash) /\ deriveGroupId(hash) \notin DOMAIN G0
        secret == JoinSecret(hash, Null)
        gid == deriveGroupId(secret)
        isNew == joins /\ gid \notin DOMAIN G0
        G1 == IF isNew THEN With(G0, gid, NewGroup(gid, "Skating Group", secret, FALSE, FALSE))
              ELSE G0
        keys1 == IF isNew THEN Append(keys0, gid) ELSE keys0
        active == IF joins THEN gid
                  ELSE IF UsesFragment(hash) THEN deriveGroupId(hash)
                  ELSE storage.activeGroupId
        isPub == IF joins THEN FALSE ELSE storage.activeIsPublic
        N1 == IF isNew THEN connectToRelays(N0, TRUE, gid, FALSE) ELSE N0
    IN
    /\ dmThreads' = storage.dmThreads
    /\ activeDmRecipient' = Null
    /\ reconnectTimers' = {}
    /\ pending' = {}
    /\ IF joins /\ Cardinality(DOMAIN G0) >= MAX_GROUPS
       THEN /\ groups' = G0
            /\ publicRooms' = P0
            /\ groupKeys' = keys0
            /\ roomKeys' = rooms0
            /\ activeGroupId' = storage.activeGroupId
            /\ activeIsPublic' = storage.activeIsPublic
            /\ SetNet(N0)
            /\ announceTimers' = {}
            /\ storage' = storage
            /\ notified' = FALSE
            /\ lastOp' = OpArg("init", hash, Null, NoEvent, "CapacityError", TRUE)
       ELSE /\ groups' = G1
            /\ publicRooms' = P0
            /\ groupKeys' = keys1
            /\ roomKeys' = rooms0
            /\ activeGroupId' = active
            /\ activeIsPublic' = isPub
            /\ SetNet(ConnectAll(ConnectAll(N1, keys1, FALSE), rooms0, TRUE))
            /\ announceTimers' = IF isNew THEN {[gid |-> gid, what |-> "joined", n |-> 1]}
                                 ELSE {}
            /\ storage' = IF joins THEN Saved(G1, P0, active, isPub, storage.dmThreads)
                          ELSE storage
            /\ notified' = TRUE
            /\ lastOp' = OpArg("init", hash, IF UsesFragment(hash) THEN active ELSE Null,
                               NoEvent, "ok", FALSE)
    /\ UNCHANGED <<pushes, clients, probe, chatNetwork, timeline, ballots>>

(***************************************************************************)
(* Texts.  A text is a string; its characters are tabulated for the texts  *)
(* the model sends, and trim / slice / length are computed on them.        *)
(***************************************************************************)
Texts == {"", " ", "psst", "hello", " hello ", "hello!", "hello!!", "darn rink"}

Chars(text) ==
    CASE text = "" -> <<>>
      [] text = " " -> <<" ">>
      [] text = "psst" -> <<"p", "s", "s", "t">>
      [] text = "hello" -> <<"h", "e", "l", "l", "o">>
      [] text = " hello " -> <<" ", "h", "e", "l", "l", "o", " ">>
      [] text = "hello!" -> <<"h", "e", "l", "l", "o", "!">>
      [] text = "hello!!" -> <<"h", "e", "l", "l", "o", "!", "!">>
      [] text = "darn rink" -> <<"d", "a", "r", "n", " ", "r", "i", "n", "k">>

TextOf(chars) == CHOOSE t \in Texts : Chars(t) = chars

\* String.prototype.length
Length(text) == Len(Chars(text))

\* A trim that returns its argument.
trimNothing(text) == text

\* String.prototype.trim
trim(text) ==
    LET c == Chars(text)
        solid == {i \in 1..Len(c) : c[i] # " "}
    IN IF solid = {} THEN ""
       ELSE TextOf(SubSeq(c, CHOOSE i \in solid : \A j \in solid : i <= j,
                             CHOOSE i \in solid : \A j \in solid : i >= j))

\* String.prototype.slice(0, n)
slice(text, n) == TextOf(SubSeq(Chars(text), 1, Min(n, Length(text))))

(***************************************************************************)
(* Direct messages.                                                        *)
(***************************************************************************)
\* The id NostrTools.finalizeEvent gives an event the local user signs, and
\* Math.floor(Date.now() / 1000) at that moment.
SentId(kind, text) ==
    CASE kind = DM -> 60
      [] kind = VOTE -> 61
      [] kind = GROUP_MSG /\ text = "hello" -> 62
      [] OTHER -> 63

SentAt == 50

\* The event sendDm hands to publishEvent: content {from, toName, dmPayload}
\* encrypted for the group, tagged ['p', recipient], signed by the sender.
SendDmEvent(id, sender, fromName, recipient, toName, secret, trimmed, at) ==
    [Event(id, sender, at, DM, recipient, TRUE, Null,
           [Payload(Undefined, fromName, FALSE) EXCEPT
               !.toName = toName, !.dmPayload = encryptDm(trimmed, sender, recipient)])
       EXCEPT !.content = encryptForGroup(@.plain, secret)]

\* A user function that returns before it touched anything.
Returns(op, arg, result) ==
    /\ lastOp' = OpArg(op, arg, Null, NoEvent, result, FALSE)
    /\ notified' = FALSE
    /\ UNCHANGED <<regVars, netVars, storage, pushes, clients, probe, chatNetwork, timeline, ballots>>

startDm(memberName) ==
    IF ~Exists(activeGroupId) THEN Returns("startDm", memberName, "false")
    ELSE
    LET group == getGroupOrRoom(Mem(groups, publicRooms, dmThreads, pushes), activeGroupId) IN
    IF memberName \notin DOMAIN group.memberPubkeys
       \/ group.memberPubkeys[memberName] = MyPubkey
    THEN Returns("startDm", memberName, "false")
    ELSE
    LET recipientPubkey == group.memberPubkeys[memberName]
        thread == IF recipientPubkey \in DOMAIN dmThreads THEN dmThreads[recipientPubkey]
                  ELSE [groupId |-> activeGroupId, name |-> memberName,
                        messages |-> <<>>, unread |-> 0]
    IN /\ dmThreads' = With(dmThreads, recipientPubkey, [thread EXCEPT !.unread = 0])
       /\ activeDmRecipient' = recipientPubkey
       /\ storage' = Saved(groups, publicRooms, activeGroupId, activeIsPublic, dmThreads')
       /\ notified' = TRUE
       /\ lastOp' = OpArg("startDm", memberName, activeGroupId, NoEvent, "true", FALSE)
       /\ UNCHANGED <<groups, publicRooms, groupKeys, roomKeys, activeGroupId, activeIsPublic,
                      netVars, pushes, clients, probe, chatNetwork, timeline, ballots>>

sendDm(text) ==
    IF activeDmRecipient = Null \/ activeGroupId = Null \/ trim(text) = ""
    THEN Returns("sendDm", text, "false")
    ELSE IF FilterCheck(text) THEN Returns("sendDm", text, "false")
    ELSE IF ~Exists(activeGroupId) \/ activeDmRecipient \notin DOMAIN dmThreads
    THEN Returns("sendDm", text, "false")
    ELSE
    LET group == getGroupOrRoom(Mem(groups, publicRooms, dmThreads, pushes), activeGroupId)
        trimmed == slice(trim(text), MAX_MESSAGE_LENGTH)
        ev == SendDmEvent(SentId(DM, trimmed), MyPubkey, MyName, activeDmRecipient,
                          dmThreads[activeDmRecipient].name, group.secret, trimmed, SentAt)
    IN /\ SetNet(publishEvent(NetNow, TRUE, activeGroupId, DM, trimmed))
       /\ lastOp' = OpArg("sendDm", text, activeGroupId, ev, "true", FALSE)
       /\ notified' = FALSE
       /\ UNCHANGED <<regVars, reconnectTimers, announceTimers, storage, pushes, clients, probe, chatNetwork, timeline, ballots>>

\* The event publishEvent signs when the local user sends to a group.
SendEvent(id, kind, secret, payload, at) ==
    [Event(id, MyPubkey, at, kind, Null, TRUE, Null, payload)
       EXCEPT !.content = encryptForGroup(@.plain, secret)]

sendMessage(text) ==
    IF activeGroupId = Null \/ trim(text) = "" THEN Returns("sendMessage", text, "false")
    ELSE IF FilterCheck(text) THEN Returns("sendMessage", text, "false")
    ELSE IF ~Exists(activeGroupId) THEN Returns("sendMessage", text, "false")
    ELSE
    LET group == getGroupOrRoom(Mem(groups, publicRooms, dmThreads, pushes), activeGroupId)
        trimmed == slice(trim(text), MAX_MESSAGE_LENGTH)
        ev == SendEvent(SentId(GROUP_MSG, trimmed), GROUP_MSG, group.secret,
                        Payload(trimmed, MyName, FALSE), SentAt)
    IN /\ SetNet(publishEvent(NetNow, TRUE, activeGroupId, GROUP_MSG, trimmed))
       /\ lastOp' = OpArg("sendMessage", text, activeGroupId, ev, "true", FALSE)
       /\ notified' = FALSE
       /\ UNCHANGED <<regVars, reconnectTimers, announceTimers, storage, pushes, clients, probe, chatNetwork, timeline, ballots>>

\* What the wire record keeps of a vote: the option and the flag.
VoteWhat(programIndex, voted) ==
    "vote " \o ToString(programIndex) \o (IF voted THEN " true" ELSE " false")

\* A voteTime that always adds.
VotedAlways(cur) == TRUE

\* voted = (group.votes[programIndex].indexOf(state.myName) === -1)
Voted(cur) == MyName \notin Range(cur)

voteTime(programIndex) ==
    IF ~Exists(activeGroupId) THEN Returns("voteTime", programIndex, "false")
    ELSE
    LET S == Mem(groups, publicRooms, dmThreads, pushes)
        isPublic == activeGroupId \notin DOMAIN groups
        group == getGroupOrRoom(S, activeGroupId)
        cur == IF programIndex \in DOMAIN group.votes THEN group.votes[programIndex] ELSE <<>>
        voted == Voted(cur)
        new == IF voted THEN Append(cur, MyName) ELSE RemoveFirst(cur, MyName)
        votes == [i \in DOMAIN group.votes \cup {programIndex} |->
                     IF i = programIndex THEN new ELSE group.votes[i]]
        S2 == PutOwn(S, activeGroupId, isPublic, [group EXCEPT !.votes = votes])
        ev == SendEvent(SentId(VOTE, "") + 10 * Len(ballots.sent), VOTE, group.secret,
                        [Payload(Undefined, MyName, FALSE) EXCEPT
                            !.programIndex = programIndex, !.voted = voted], SentAt)
    IN /\ groups' = S2.g
       /\ publicRooms' = S2.p
       /\ storage' = Saved(S2.g, S2.p, activeGroupId, activeIsPublic, dmThreads)
       /\ notified' = TRUE
       /\ SetNet(publishEvent(NetNow, TRUE, activeGroupId, VOTE,
                              VoteWhat(programIndex, voted)))
       /\ lastOp' = OpArg("voteTime", programIndex, activeGroupId, ev, "true", FALSE)
       /\ ballots' = IF HasOpenSocket(NetNow, activeGroupId)
                     THEN [ballots EXCEPT !.sent = Append(@, ev)] ELSE ballots
       /\ UNCHANGED <<groupKeys, roomKeys, activeGroupId, activeIsPublic, dmThreads,
                      activeDmRecipient, reconnectTimers, announceTimers, pushes,
                      clients, probe, chatNetwork, timeline>>

(***************************************************************************)
(* The message pipeline on two joined groups: the private group made by    *)
(* createGroup({password: "rink2025"}) and the public room "leisure", both *)
(* connected, the private group active.  Relays deliver the events below   *)
(* in any order, any number of times, on either group's socket.            *)
(***************************************************************************)
RinkGid == deriveGroupId(RinkSecret)

LeisureGid == deriveGroupId(LeisureSecret)

NumChat == MAX_MESSAGES + 1

\* created_at of chat event i: 30, 10, 20, 20, 40, 50, ...
ChatCreatedAt(i) ==
    IF i = 1 THEN 30 ELSE IF i = 2 THEN 10 ELSE IF i <= 4 THEN 20 ELSE 10 * (i - 1)

\* Chat messages of another member of the private group.
ChatEvent(i) ==
    Event(i, "pk-ann", ChatCreatedAt(i), GROUP_MSG, Null, TRUE, RinkSecret,
          Payload("hello", "Ann", FALSE))

\* A shared program in the private group.
ShareEvent == Event(21, "pk-ann", 15, SHARE, Null, TRUE, RinkSecret,
                    Payload("Shinny", "Ann", FALSE))

\* A chat message of the public room.
RoomEvent == Event(30, "pk-bob", 12, GROUP_MSG, Null, TRUE, LeisureSecret,
                   Payload("hi all", "Bob", FALSE))

\* An event carrying the id of chat event 1 whose signature does not verify.
ForgedEvent == [ChatEvent(1) EXCEPT !.sigOk = FALSE, !.created_at = 99]

\* A signed event of the private group whose plaintext is not JSON.
NotJsonEvent == Event(40, "pk-ann", 35, GROUP_MSG, Null, TRUE, RinkSecret,
                      [Payload("{", "Ann", FALSE) EXCEPT !.json = FALSE])

\* What a client stores of a group once createGroup / joinGroup has run.
Client(secret) == [secret |-> secret, groupId |-> deriveGroupId(secret)]

NoClient == [secret |-> Null, groupId |-> Null]

\* The passphrase two clients share, what else the joiner passes, and the form
\* of the joiner's call.
Input(passphrase, other, form) == [passphrase |-> passphrase, other |-> other, form |-> form]

NoInput == Input(Null, Null, Null)

\* Nothing applied yet.
NoProbe == [op |-> Null]

MsgEvents == {ChatEvent(i) : i \in 1..NumChat}
             \cup {ShareEvent, RoomEvent, ForgedEvent, NotJsonEvent}

InitIdle ==
    /\ pending = {}
    /\ clients = [input |-> NoInput, creator |-> NoClient, joiner |-> NoClient]
    /\ probe = NoProbe
    /\ chatNetwork = NewChatNetwork
    /\ timeline = NewTimeline
    /\ ballots = NoBallots
    /\ steps = 0

\* The user joined the Leisure room, then created a password group; both
\* sockets opened and the delayed announcements fired.
MsgState ==
    /\ groups = (RinkGid :> [NewGroup(RinkGid, "Skating Group", RinkSecret, TRUE, FALSE)
                               EXCEPT !.connected = TRUE])
    /\ publicRooms = (LeisureGid :> [NewGroup(LeisureGid, "Leisure Skating", LeisureSecret,
                                              FALSE, TRUE) EXCEPT !.connected = TRUE])
    /\ groupKeys = <<RinkGid>>
    /\ roomKeys = <<LeisureGid>>
    /\ activeGroupId = RinkGid
    /\ activeIsPublic = FALSE
    /\ dmThreads = EmptyFn
    /\ activeDmRecipient = Null
    /\ connections = (LeisureGid :> 1) @@ (RinkGid :> 2)
    /\ sockets = [w \in {1, 2} \X RELAYS |->
                     IF w[1] = 1 THEN Sock(LeisureGid, TRUE, w[2], 1, "OPEN")
                     ELSE Sock(RinkGid, FALSE, w[2], 2, "OPEN")]
    /\ reconnectTimers = {}
    /\ announceTimers = {}
    /\ presenceTimers = (LeisureGid :> 1) @@ (RinkGid :> 2)
    /\ intervals = (1 :> LeisureGid) @@ (2 :> RinkGid)
    /\ storage = Saved((RinkGid :> NewGroup(RinkGid, "Skating Group", RinkSecret, TRUE, FALSE)),
                       (LeisureGid :> NewGroup(LeisureGid, "Leisure Skating", LeisureSecret,
                                               FALSE, TRUE)),
                       RinkGid, FALSE, EmptyFn)
    /\ wire = {Sent(RinkGid, GROUP_MSG, "created"), Sent(RinkGid, PRESENCE, "presence")}
    /\ pushes = EmptyFn
    /\ notified = FALSE

InitMsg ==
    /\ MsgState
    /\ lastOp = Op("timeout", RinkGid, NoEvent, "ok", FALSE)
    /\ InitIdle

\* A relay delivers one of the events on a socket of one of the groups.
DeliverMsg ==
    /\ steps < MaxDeliveries
    /\ steps' = steps + 1
    /\ \/ \E ev \in MsgEvents : OnMessage(RinkGid, FALSE, ev)
       \/ \E ev \in {RoomEvent, ChatEvent(1)} : OnMessage(LeisureGid, TRUE, ev)

NextMsg == DeliverMsg

SpecMsg == InitMsg /\ [][NextMsg]_vars

AllMessages == [g \in DOMAIN groups \cup DOMAIN publicRooms |->
                   IF g \in DOMAIN groups THEN groups[g].messages ELSE publicRooms[g].messages]


(***************************************************************************)
(* The same two groups with the public room active, so that the private    *)
(* group's unread counter can move.  Relays deliver one valid event of     *)
(* each kind and, of each, a copy whose signature does not verify, a copy  *)
(* encrypted under another group's secret and a copy that is not JSON.     *)
(***************************************************************************)
VoteEvent == Event(50, "pk-ann", 40, VOTE, Null, TRUE, RinkSecret,
                   [Payload(Undefined, "Ann", FALSE) EXCEPT !.programIndex = 2, !.voted = TRUE])

PresenceEvent == Event(51, "pk-ann", 41, PRESENCE, Null, TRUE, RinkSecret,
                       Payload(Undefined, "Ann", FALSE))

DmEvent == Event(52, "pk-ann", 42, DM, MyPubkey, TRUE, RinkSecret,
                 [Payload(Undefined, "Ann", FALSE) EXCEPT
                     !.toName = MyName,
                     !.dmPayload = [a |-> "pk-ann", b |-> MyPubkey, json |-> TRUE, text |-> "psst"]])

ValidEvents == {ChatEvent(1), VoteEvent, PresenceEvent, DmEvent}

BadSig(ev) == [ev EXCEPT !.sigOk = FALSE]

WrongKey(ev) == [ev EXCEPT !.id = @ + 100, !.content.key = LeisureSecret]

NotJson(ev) == [ev EXCEPT !.id = @ + 200, !.content.plain.json = FALSE]

DropEvents == ValidEvents \cup {BadSig(ev) : ev \in ValidEvents}
              \cup {WrongKey(ev) : ev \in ValidEvents} \cup {NotJson(ev) : ev \in ValidEvents}

\* InitMsg followed by switchGroup(LeisureGid).
InitDrop ==
    /\ groups = (RinkGid :> [NewGroup(RinkGid, "Skating Group", RinkSecret, TRUE, FALSE)
                               EXCEPT !.connected = TRUE])
    /\ publicRooms = (LeisureGid :> [NewGroup(LeisureGid, "Leisure Skating", LeisureSecret,
                                              FALSE, TRUE) EXCEPT !.connected = TRUE])
    /\ groupKeys = <<RinkGid>>
    /\ roomKeys = <<LeisureGid>>
    /\ activeGroupId = LeisureGid
    /\ activeIsPublic = TRUE
    /\ dmThreads = EmptyFn
    /\ activeDmRecipient = Null
    /\ connections = (LeisureGid :> 1) @@ (RinkGid :> 2)
    /\ sockets = [w \in {1, 2} \X RELAYS |->
                     IF w[1] = 1 THEN Sock(LeisureGid, TRUE, w[2], 1, "OPEN")
                     ELSE Sock(RinkGid, FALSE, w[2], 2, "OPEN")]
    /\ reconnectTimers = {}
    /\ announceTimers = {}
    /\ presenceTimers = (LeisureGid :> 1) @@ (RinkGid :> 2)
    /\ intervals = (1 :> LeisureGid) @@ (2 :> RinkGid)
    /\ storage = Saved(groups, publicRooms, LeisureGid, TRUE, EmptyFn)
    /\ wire = {Sent(RinkGid, GROUP_MSG, "created"), Sent(RinkGid, PRESENCE, "presence")}
    /\ lastOp = Op("switchGroup", LeisureGid, NoEvent, "ok", FALSE)
    /\ notified = TRUE
    /\ pushes = EmptyFn
    /\ InitIdle

DeliverDrop ==
    /\ steps < MaxDrops
    /\ steps' = steps + 1
    /\ \E ev \in DropEvents : OnMessage(RinkGid, FALSE, ev)

NextDrop == DeliverDrop

SpecDrop == InitDrop /\ [][NextDrop]_vars

(***************************************************************************)
(* The registry from the state init leaves on a first visit (nothing       *)
(* stored, no URL fragment): the user creates, joins and leaves groups,    *)
(* calls may overlap at their await, sockets open and the delayed          *)
(* announcements fire.                                                     *)
(***************************************************************************)
InitReg ==
    /\ groups = EmptyFn
    /\ publicRooms = EmptyFn
    /\ groupKeys = <<>>
    /\ roomKeys = <<>>
    /\ activeGroupId = Null
    /\ activeIsPublic = FALSE
    /\ dmThreads = EmptyFn
    /\ activeDmRecipient = Null
    /\ connections = EmptyFn
    /\ sockets = EmptyFn
    /\ reconnectTimers = {}
    /\ announceTimers = {}
    /\ presenceTimers = EmptyFn
    /\ intervals = EmptyFn
    /\ storage = Saved(EmptyFn, EmptyFn, Null, FALSE, EmptyFn)
    /\ wire = {}
    /\ lastOp = Op("init", Null, NoEvent, "ok", FALSE)
    /\ notified = TRUE
    /\ pushes = EmptyFn
    /\ InitIdle

\* createGroup's inputs: <<options.name, options.password, what randomHex returns>>
CreateInputs ==
    {<<"Skating Group", Null, RandomA>>, <<"Skating Group", Null, RandomB>>,
     <<"Skating Group", "rink2025", Null>>, <<"Skating Group", "pond", Null>>,
     <<"darn rink", Null, RandomA>>}

\* joinGroup's inputs: <<secret, password>>
JoinInputs == {<<"rink2025", Null>>, <<RinkSecret, Null>>, <<"x", "pond">>,
               <<LeisureSecret, Null>>}

RoomInputs == {"leisure", "nope"}

Counted == steps < MaxCalls /\ steps' = steps + 1

DoCreateGroup == Counted /\ \E i \in CreateInputs : CreateGroupCall(i[1], i[2], i[3])

DoJoinGroup == Counted /\ \E i \in JoinInputs : JoinGroupCall(i[1], i[2], Null)

DoJoinPublicRoom == Counted /\ pending' = pending /\ \E k \in RoomInputs : joinPublicRoom(k)

DoLeaveGroup ==
    Counted /\ pending' = pending /\ \E g \in DOMAIN groups \cup DOMAIN publicRooms : leaveGroup(g)

DoResume == \E c \in pending : Resume(c)

DoSocketOpen == \E w \in DOMAIN sockets : SocketOpen(w)

DoAnnounceTimeout == \E t \in announceTimers : AnnounceTimeout(t)

NextReg ==
    \/ DoCreateGroup
    \/ DoJoinGroup
    \/ DoJoinPublicRoom
    \/ DoLeaveGroup
    \/ DoResume

SpecReg == InitReg /\ [][NextReg]_vars


(***************************************************************************)
(* The registry at capacity: the user created MAX_GROUPS groups without a  *)
(* password, every socket opened and every delayed announcement fired.     *)
(* From there the user creates, joins and leaves, sockets open and         *)
(* announcements fire.                                                     *)
(***************************************************************************)
\* What randomHex returned for the groups that exist, in creation order
CapSecrets == <<RandomA, RandomB, RandomC>>

CapGid(i) == deriveGroupId(CapSecrets[i])

CapIndex(gid) == CHOOSE i \in 1..MAX_GROUPS : CapGid(i) = gid

CapGroups == [g \in {CapGid(i) : i \in 1..MAX_GROUPS} |->
                 NewGroup(g, "Skating Group", CapSecrets[CapIndex(g)], FALSE, FALSE)]

CapState ==
    /\ groups = [g \in DOMAIN CapGroups |-> [CapGroups[g] EXCEPT !.connected = TRUE]]
    /\ publicRooms = EmptyFn
    /\ groupKeys = [i \in 1..MAX_GROUPS |-> CapGid(i)]
    /\ roomKeys = <<>>
    /\ activeGroupId = CapGid(MAX_GROUPS)
    /\ activeIsPublic = FALSE
    /\ dmThreads = EmptyFn
    /\ activeDmRecipient = Null
    /\ connections = [g \in DOMAIN CapGroups |-> CapIndex(g)]
    /\ sockets = [w \in (1..MAX_GROUPS) \X RELAYS |->
                     Sock(CapGid(w[1]), FALSE, w[2], w[1], "OPEN")]
    /\ reconnectTimers = {}
    /\ announceTimers = {}
    /\ presenceTimers = [g \in DOMAIN CapGroups |-> CapIndex(g)]
    /\ intervals = [i \in 1..MAX_GROUPS |-> CapGid(i)]
    /\ storage = Saved(CapGroups, EmptyFn, CapGid(MAX_GROUPS), FALSE, EmptyFn)
    /\ wire = UNION {{Sent(g, GROUP_MSG, "created"), Sent(g, PRESENCE, "presence")} :
                       g \in DOMAIN CapGroups}
    /\ pushes = EmptyFn
    /\ notified = FALSE

InitCap ==
    /\ CapState
    /\ lastOp = Op("timeout", CapGid(MAX_GROUPS), NoEvent, "ok", FALSE)
    /\ InitIdle

CapCreateInputs == {<<"Skating Group", Null, RandomD>>, <<"Skating Group", "rink2025", Null>>}

CapCounted == steps < MaxCapCalls /\ steps' = steps + 1

CapCreateGroup == CapCounted /\ \E i \in CapCreateInputs : CreateGroupCall(i[1], i[2], i[3])

CapJoinPublicRoom == CapCounted /\ pending' = pending /\ joinPublicRoom("leisure")

CapLeaveGroup ==
    CapCounted /\ pending' = pending /\ \E g \in DOMAIN groups \cup DOMAIN publicRooms : leaveGroup(g)

NextCap ==
    \/ CapCreateGroup
    \/ CapJoinPublicRoom
    \/ CapLeaveGroup
    \/ DoResume
    \/ DoSocketOpen
    \/ DoAnnounceTimeout

SpecCap == InitCap /\ [][NextCap]_vars

(***************************************************************************)
(* Key derivation on two independent clients: one creates a group with the *)
(* passphrase as its password, the other joins with the same passphrase,   *)
(* given as joinGroup's first argument or as its password.  Both start     *)
(* from the first-visit state; only what each stores of the group is kept. *)
(***************************************************************************)
Passphrases == {"rink2025", "pond", "toronto-leisure-skate-public-2025",
                RinkSecret, RinkSecretUpper}

\* First arguments of joinGroup(x, P): a passphrase, a share-link secret.
Others == {"pond", "rink2025", RandomA}

Forms == {"joinGroup(P)", "joinGroup(x, P)"}

InitKey ==
    /\ groups = EmptyFn
    /\ publicRooms = EmptyFn
    /\ groupKeys = <<>>
    /\ roomKeys = <<>>
    /\ activeGroupId = Null
    /\ activeIsPublic = FALSE
    /\ dmThreads = EmptyFn
    /\ activeDmRecipient = Null
    /\ connections = EmptyFn
    /\ sockets = EmptyFn
    /\ reconnectTimers = {}
    /\ announceTimers = {}
    /\ presenceTimers = EmptyFn
    /\ intervals = EmptyFn
    /\ storage = Saved(EmptyFn, EmptyFn, Null, FALSE, EmptyFn)
    /\ wire = {}
    /\ lastOp = Op("init", Null, NoEvent, "ok", FALSE)
    /\ notified = TRUE
    /\ pushes = EmptyFn
    /\ pending = {}
    /\ steps = 0
    /\ probe = NoProbe
    /\ chatNetwork = NewChatNetwork
    /\ timeline = NewTimeline
    /\ ballots = NoBallots
    /\ \E P \in Passphrases, x \in Others, form \in Forms :
          clients = [input |-> Input(P, x, form), creator |-> NoClient, joiner |-> NoClient]

\* The first client: createGroup({password: P})
CreatorCreates ==
    /\ clients.creator = NoClient
    /\ clients' = [clients EXCEPT
                     !.creator = Client(CreateSecretOfPassword(clients.input.passphrase))]
    /\ UNCHANGED <<regVars, netVars, storage, pending, lastOp, notified, steps, pushes, probe, chatNetwork, timeline, ballots>>

\* The second client: joinGroup(P) or joinGroup(x, P)
JoinerJoins ==
    /\ clients.joiner = NoClient
    /\ clients' = [clients EXCEPT
                     !.joiner = IF clients.input.form = "joinGroup(P)"
                                THEN Client(JoinSecret(clients.input.passphrase, Null))
                                ELSE Client(JoinSecret(clients.input.other,
                                                       clients.input.passphrase))]
    /\ UNCHANGED <<regVars, netVars, storage, pending, lastOp, notified, steps, pushes, probe, chatNetwork, timeline, ballots>>

NextKey ==
    \/ CreatorCreates
    \/ JoinerJoins

SpecKey == InitKey /\ [][NextKey]_vars

(***************************************************************************)
(* The Crypto functions applied on their own, from the first-visit state:  *)
(* a plaintext is encrypted for a group secret and the ciphertext is       *)
(* decrypted under that secret and under another one.                      *)
(***************************************************************************)
FreshState ==
    /\ groups = EmptyFn
    /\ publicRooms = EmptyFn
    /\ groupKeys = <<>>
    /\ roomKeys = <<>>
    /\ activeGroupId = Null
    /\ activeIsPublic = FALSE
    /\ dmThreads = EmptyFn
    /\ activeDmRecipient = Null
    /\ connections = EmptyFn
    /\ sockets = EmptyFn
    /\ reconnectTimers = {}
    /\ announceTimers = {}
    /\ presenceTimers = EmptyFn
    /\ intervals = EmptyFn
    /\ storage = Saved(EmptyFn, EmptyFn, Null, FALSE, EmptyFn)
    /\ wire = {}
    /\ lastOp = Op("init", Null, NoEvent, "ok", FALSE)
    /\ notified = TRUE
    /\ pushes = EmptyFn
    /\ pending = {}
    /\ steps = 0
    /\ clients = [input |-> NoInput, creator |-> NoClient, joiner |-> NoClient]

GroupSecrets == {RinkSecret, PondSecret, RandomA}

\* Secrets tried for decryption: other groups' secrets and the first secret
\* in upper-case hex.
OtherSecrets == {RinkSecret, RinkSecretUpper, PondSecret, RandomA}

Plaintexts == {"hello", "{\"text\":\"hi\"}", " "}

NotRun == [outcome |-> "notrun"]

NoCipher == [key |-> Null, plain |-> Null]

InitCrypt ==
    /\ FreshState
    /\ chatNetwork = NewChatNetwork
    /\ timeline = NewTimeline
    /\ ballots = NoBallots
    /\ \E S \in GroupSecrets : \E S2 \in OtherSecrets \ {S}, M \in Plaintexts :
          probe = [op |-> "group", secret |-> S, other |-> S2, plaintext |-> M,
                   ciphertext |-> NoCipher, own |-> NotRun, foreign |-> NotRun]

UnchangedButProbe ==
    UNCHANGED <<regVars, netVars, storage, pending, lastOp, notified, steps, pushes, clients,
                chatNetwork, timeline, ballots>>

\* Crypto.encryptForGroup(M, S)
EncryptStep ==
    /\ probe.ciphertext = NoCipher
    /\ probe' = [probe EXCEPT !.ciphertext = encryptForGroup(probe.plaintext, probe.secret)]
    /\ UnchangedButProbe

\* Crypto.decryptForGroup(c, S)
DecryptOwnStep ==
    /\ probe.ciphertext # NoCipher
    /\ probe.own = NotRun
    /\ probe' = [probe EXCEPT !.own = decryptForGroup(probe.ciphertext, probe.secret)]
    /\ UnchangedButProbe

\* Crypto.decryptForGroup(c, S')
DecryptForeignStep ==
    /\ probe.ciphertext # NoCipher
    /\ probe.foreign = NotRun
    /\ probe' = [probe EXCEPT !.foreign = decryptForGroup(probe.ciphertext, probe.other)]
    /\ UnchangedButProbe

NextCrypt ==
    \/ EncryptStep
    \/ DecryptOwnStep
    \/ DecryptForeignStep

SpecCrypt == InitCrypt /\ [][NextCrypt]_vars

(***************************************************************************)
(* Direct messages in the private group of the two joined groups: another  *)
(* member announces herself and writes to the local user, the local user   *)
(* opens a thread and writes to her, the relay delivers the local user's   *)
(* own events back, and other identities' direct messages pass by.         *)
(***************************************************************************)
AnnPubkey == "pk-ann"

BobPubkey == "pk-bob"

\* Ann's sendDm("psst") to the local user.
AnnDm == SendDmEvent(52, AnnPubkey, "Ann", MyPubkey, MyName, RinkSecret, "psst", 42)

\* Ann's next direct message to the local user.
AnnDm2 == SendDmEvent(58, AnnPubkey, "Ann", MyPubkey, MyName, RinkSecret, "hello", 44)

\* Bob's direct message to Ann.
StrangersDm == SendDmEvent(53, BobPubkey, "Bob", AnnPubkey, "Ann", RinkSecret, "psst", 43)

\* The local user's payload for Ann, signed again by Bob and tagged for Ann.
ReplayedDm ==
    [StrangersDm EXCEPT !.id = 54,
                        !.content.plain.dmPayload = encryptDm("psst", MyPubkey, AnnPubkey)]

\* Ann's payload for the local user in an event without a p tag.
UntaggedDm == [AnnDm EXCEPT !.id = 55, !.ptag = Null]

\* The local user's direct messages that reached a relay.
SentDmEvents ==
    {SendDmEvent(SentId(DM, w.what), MyPubkey, MyName, AnnPubkey, "Ann", RinkSecret,
                 w.what, SentAt) : w \in {x \in wire : x.kind = DM /\ x.gid = RinkGid}}

InitDm ==
    /\ MsgState
    /\ lastOp = Op("timeout", RinkGid, NoEvent, "ok", FALSE)
    /\ InitIdle

DmCounted == steps < MaxDmSteps /\ steps' = steps + 1 /\ pending' = pending

DeliverDm ==
    /\ DmCounted
    /\ \E ev \in {PresenceEvent, AnnDm, AnnDm2, StrangersDm, ReplayedDm, UntaggedDm}
                \cup SentDmEvents :
          OnMessage(RinkGid, FALSE, ev)

DoStartDm == DmCounted /\ \E name \in {"Ann", MyName, "Zed"} : startDm(name)

DoSendDm == DmCounted /\ \E text \in {"psst", " ", "darn rink"} : sendDm(text)

NextDm ==
    \/ DeliverDm
    \/ DoStartDm
    \/ DoSendDm

SpecDm == InitDm /\ [][NextDm]_vars

(***************************************************************************)
(* SpecSend: the local user sends chat messages and votes, switches and    *)
(* leaves groups, while sockets close and relays echo what was sent.        *)
(***************************************************************************)
MaxSendSteps == 4

SendTexts == {"", " ", "hello", " hello ", "hello!!", "darn rink"}

VoteOptions == {2, 3}

\* A vote of another member for option 3, already known to the relays.
AnnVote3 == SendEvent(56, VOTE, RinkSecret,
                      [Payload(Undefined, "Ann", FALSE) EXCEPT
                          !.programIndex = 3, !.voted = TRUE], 45)

\* A chat message of another member with a word of window.PROFANITY_LIST.
RudeEvent == Event(57, "pk-ann", 46, GROUP_MSG, Null, TRUE, RinkSecret,
                   Payload("darn rink", "Ann", FALSE))

\* What the local user's own chat messages look like when a relay echoes them.
EchoEvents == {SendEvent(SentId(GROUP_MSG, t), GROUP_MSG, RinkSecret,
                         Payload(t, MyName, FALSE), SentAt) : t \in {"hello"}}

InitSend ==
    /\ MsgState
    /\ lastOp = Op("timeout", RinkGid, NoEvent, "ok", FALSE)
    /\ InitIdle

SendCounted == steps < MaxSendSteps /\ steps' = steps + 1 /\ pending' = pending

DoSendMessage == SendCounted /\ \E text \in SendTexts : sendMessage(text)

DoVoteTime == SendCounted /\ \E i \in VoteOptions : voteTime(i)

SendSwitchGroup == SendCounted /\ \E gid \in {RinkGid, LeisureGid} : switchGroup(gid)

SendLeaveGroup == SendCounted /\ \E gid \in {RinkGid, LeisureGid} : leaveGroup(gid)

\* A relay delivers another member's vote, chat message or direct message, or
\* echoes a chat message that reached the wire.
SendDeliver ==
    /\ SendCounted
    /\ \E ev \in EchoEvents \cup {AnnVote3, RudeEvent, AnnDm} :
          /\ ev \in EchoEvents =>
                Sent(RinkGid, GROUP_MSG, ev.content.plain.text) \in wire
          /\ OnMessage(RinkGid, FALSE, ev)

SendSocketClose == SendCounted /\ \E w \in DOMAIN sockets : SocketClose(w)

NextSend ==
    \/ DoSendMessage
    \/ DoVoteTime
    \/ SendSwitchGroup
    \/ SendLeaveGroup
    \/ SendDeliver
    \/ SendSocketClose

SpecSend == InitSend /\ [][NextSend]_vars

(***************************************************************************)
(* SpecNet: groups are created, joined and left while their sockets open   *)
(* and close.  Timers fire and awaited promises resolve (the event loop    *)
(* runs every callback that is due), and a socket that is connecting       *)
(* opens: the relays are reachable.  Nothing forces a socket to close or   *)
(* the user to act.                                                        *)
(***************************************************************************)
MaxNetCalls == 3

NetCounted == steps < MaxNetCalls /\ steps' = steps + 1

NetCreateGroup == NetCounted /\ CreateGroupCall("Skating Group", Null, RandomA)

NetJoinGroup == NetCounted /\ JoinGroupCall("rink2025", Null, Null)

NetLeaveGroup ==
    NetCounted /\ pending' = pending /\ \E g \in DOMAIN groups : leaveGroup(g)

NetSocketClose ==
    NetCounted /\ pending' = pending /\ \E w \in DOMAIN sockets : SocketClose(w)

DoReconnectTimeout == \E t \in reconnectTimers : ReconnectTimeout(t)

NextNet ==
    \/ NetCreateGroup
    \/ NetJoinGroup
    \/ NetLeaveGroup
    \/ NetSocketClose
    \/ DoResume
    \/ DoSocketOpen
    \/ DoAnnounceTimeout
    \/ DoReconnectTimeout

SpecNet ==
    /\ InitReg
    /\ [][NextNet]_vars
    /\ WF_vars(DoResume)
    /\ WF_vars(DoSocketOpen)
    /\ WF_vars(DoAnnounceTimeout)
    /\ WF_vars(DoReconnectTimeout)

(***************************************************************************)
(* SpecChatNetwork: ChatNetwork connects and disconnects two groups while  *)
(* sockets open, fail and close.  Timers fire, and a socket that is        *)
(* connecting and does not fail opens.                                     *)
(***************************************************************************)
MaxNetworkCalls == 2

NetworkGroups == {RinkGid, LeisureGid}

NetworkCounted == steps < MaxNetworkCalls /\ steps' = steps + 1

DoConnect == NetworkCounted /\ \E g \in NetworkGroups : Connect(g)

DoDisconnect == NetworkCounted /\ \E g \in NetworkGroups : Disconnect(g)

DoRelayOpen == \E w \in DOMAIN chatNetwork.relays : RelayOpen(w)

DoRelayFail == \E w \in DOMAIN chatNetwork.relays : RelayFail(w)

DoRelayClose == \E w \in DOMAIN chatNetwork.relays : RelayClose(w)

DoReconnect == \E t \in chatNetwork.timers : Reconnect(t)

NextChatNetwork ==
    \/ DoConnect
    \/ DoDisconnect
    \/ DoRelayOpen
    \/ DoRelayFail
    \/ DoRelayClose
    \/ DoReconnect

SpecChatNetwork ==
    /\ InitReg
    /\ [][NextChatNetwork]_vars
    /\ WF_vars(DoRelayOpen)
    /\ WF_vars(DoReconnect)

(***************************************************************************)
(* The message list (claims C1 to C4)                                      *)
(***************************************************************************)
Stores == DOMAIN groups \cup DOMAIN publicRooms

CountId(messages, id) == Cardinality({i \in 1..Len(messages) : messages[i].id = id})

Ids(messages) == [i \in 1..Len(messages) |-> messages[i].id]

\* The step just taken was ws.onmessage handling a chat or share event that
\* verified, decrypted and parsed.
AcceptedMessageEvent ==
    /\ lastOp.op = "onmessage"
    /\ lastOp.result \in {"applied", "seen"}
    /\ lastOp.ev.sigOk
    /\ lastOp.ev.kind \in {GROUP_MSG, SHARE}

(***************************************************************************)
(* C1: delivering an event that verifies and decrypts two or more times,   *)
(* on any socket and with other events in between, never stores it twice:  *)
(* no two entries of any group's messages share an id, and right after an  *)
(* event was applied its id is stored exactly once.                        *)
(***************************************************************************)
C1_NoDuplicateIds ==
    /\ \A g \in Stores : \A i, j \in 1..Len(AllMessages[g]) :
          i # j => AllMessages[g][i].id # AllMessages[g][j].id
    /\ (AcceptedMessageEvent /\ lastOp.result = "applied")
          => CountId(AllMessages[lastOp.gid], lastOp.ev.id) = 1

\* A stored chat event is delivered again and dropped as already processed.
C1_Witness ==
    /\ AcceptedMessageEvent
    /\ lastOp.result = "seen"
    /\ CountId(AllMessages[lastOp.gid], lastOp.ev.id) = 1

(***************************************************************************)
(* C2: after every insertion every group's messages are sorted by ts       *)
(* ascending.                                                              *)
(***************************************************************************)
C2_SortedByTs ==
    \A g \in Stores : \A i, j \in 1..Len(AllMessages[g]) :
        i < j => AllMessages[g][i].ts <= AllMessages[g][j].ts

\* Timestamps 30 and 10 were stored and 20 arrived last: stored as 10, 20, 30.
C2_Witness ==
    /\ AcceptedMessageEvent
    /\ lastOp.result = "applied"
    /\ lastOp.ev.created_at = 20
    /\ lastOp.gid = RinkGid
    /\ Len(groups[RinkGid].messages) = 3
    /\ [i \in 1..3 |-> groups[RinkGid].messages[i].ts] = <<10000, 20000, 30000>>

(***************************************************************************)
(* C3: whenever addMessage evicts, what remains are the MAX_MESSAGES       *)
(* messages with the greatest timestamps among the stored ones and the new *)
(* one: no message that was dropped is newer than a message that was kept, *)
(* and a new message older than every stored one is not retained.          *)
(***************************************************************************)
C3_EvictionKeepsMostRecent ==
    [][\A g \in DOMAIN groups \cap DOMAIN groups' :
          LET old == groups[g].messages
              new == groups'[g].messages
          IN (Len(old) = MAX_MESSAGES /\ pushes'[g] = pushes[g] + 1)
             => \A d \in Range(old) \ Range(new) : \A r \in Range(new) : d.ts <= r.ts]_vars

(***************************************************************************)
(* C4: no group's messages list is ever longer than MAX_MESSAGES, and      *)
(* after n insertions into an empty group it holds min(n, MAX_MESSAGES)    *)
(* messages.                                                               *)
(***************************************************************************)
C4_AtMostMaxMessages ==
    \A g \in Stores :
        /\ Len(AllMessages[g]) <= MAX_MESSAGES
        /\ Len(AllMessages[g]) = Min(IF g \in DOMAIN pushes THEN pushes[g] ELSE 0, MAX_MESSAGES)

\* More messages were inserted than the cap and exactly the cap is stored.
C4_Witness ==
    /\ RinkGid \in DOMAIN pushes
    /\ pushes[RinkGid] > MAX_MESSAGES
    /\ Len(groups[RinkGid].messages) = MAX_MESSAGES


(***************************************************************************)
(* The registry's capacity (claims C5 to C8)                               *)
(***************************************************************************)
\* The number of private groups, counted from state.groups itself.
PrivateCount == Cardinality(DOMAIN groups)

\* A step in which createGroup / joinGroup is called (not one in which a
\* suspended call resumes).
IsCallOf(op) == lastOp'.op = op /\ pending \subseteq pending'

\* C5: in every reachable state state.groups holds at most MAX_GROUPS private
\* groups, overlapping createGroup / joinGroup calls included.
C5_AtMostMaxGroups == PrivateCount <= MAX_GROUPS

\* C6: createGroup called while state.groups holds exactly MAX_GROUPS groups
\* fails with the capacity error and changes nothing: the groups, the public
\* rooms, the active group, the connection map, the persisted record and the
\* wire stay as they were.
C6_CreateAtCapacityHasNoEffect ==
    [][(IsCallOf("createGroup") /\ PrivateCount = MAX_GROUPS)
          => /\ lastOp'.result = "CapacityError"
             /\ lastOp'.escaped
             /\ UNCHANGED <<groups, publicRooms, activeGroupId, activeIsPublic,
                            connections, sockets, storage, wire, announceTimers>>]_vars

\* createGroup was rejected at exactly MAX_GROUPS groups, whose sockets are open.
C6_Witness ==
    /\ lastOp.op = "createGroup"
    /\ lastOp.result = "CapacityError"
    /\ PrivateCount = MAX_GROUPS
    /\ \A g \in DOMAIN groups : HasOpenSocket(NetNow, g)

\* C7: joinPublicRoom with a known room key succeeds whatever the number of
\* private groups: the room exists, is active and has a connection, and the
\* private groups are untouched; and createGroup / joinGroup called with fewer
\* than MAX_GROUPS private groups is never refused for capacity, however many
\* public rooms are joined.
C7_PublicRoomsExempt ==
    [][/\ (lastOp'.op = "joinPublicRoom" /\ lastOp'.arg \in DOMAIN PUBLIC_ROOMS)
            => LET gid == deriveGroupId(publicRoomSecrets(lastOp'.arg)) IN
               /\ ~lastOp'.escaped
               /\ gid \in DOMAIN publicRooms'
               /\ activeGroupId' = gid
               /\ activeIsPublic'
               /\ gid \in DOMAIN connections'
               /\ groups' = groups
       /\ ((IsCallOf("createGroup") \/ IsCallOf("joinGroup")) /\ PrivateCount < MAX_GROUPS)
            => lastOp'.result # "CapacityError"]_vars

\* A public room was joined while exactly MAX_GROUPS private groups existed.
C7_Witness ==
    /\ lastOp.op = "joinPublicRoom"
    /\ lastOp.result = "ok"
    /\ PrivateCount = MAX_GROUPS
    /\ activeIsPublic
    /\ activeGroupId \in DOMAIN publicRooms

\* C8: joinGroup whose derived groupId is already in state.groups makes that
\* group active and answers alreadyJoined, with no new group, no new
\* connection and no announcement, for every private-group count.
C8_JoinExistingIsAlreadyJoined ==
    [][(/\ lastOp'.op = "joinGroup"
        /\ lastOp'.result # "awaiting"
        /\ deriveGroupId(lastOp'.arg) \in DOMAIN groups)
          => /\ lastOp'.result = "alreadyJoined"
             /\ activeGroupId' = deriveGroupId(lastOp'.arg)
             /\ ~activeIsPublic'
             /\ DOMAIN groups' = DOMAIN groups
             /\ UNCHANGED <<connections, sockets, announceTimers, wire>>]_vars

\* The same, for the counts below MAX_GROUPS only.
C8_BelowCapacity ==
    [][(/\ lastOp'.op = "joinGroup"
        /\ lastOp'.result # "awaiting"
        /\ PrivateCount < MAX_GROUPS
        /\ deriveGroupId(lastOp'.arg) \in DOMAIN groups)
          => /\ lastOp'.result = "alreadyJoined"
             /\ activeGroupId' = deriveGroupId(lastOp'.arg)
             /\ ~activeIsPublic'
             /\ DOMAIN groups' = DOMAIN groups
             /\ UNCHANGED <<connections, sockets, announceTimers, wire>>]_vars


(***************************************************************************)
(* Key derivation (claim C9)                                               *)
(***************************************************************************)
BothStored == clients.creator # NoClient /\ clients.joiner # NoClient

\* C9: for every passphrase P, 64-character hexadecimal ones included, the
\* client that ran createGroup with password P and the client that ran
\* joinGroup(P) or joinGroup(x, P) store the same secret and the same groupId.
C9_SamePassphraseSameGroup == BothStored => clients.joiner = clients.creator

\* C9 as the program has it: the two clients store the same secret and
\* groupId whenever the joiner gave P as the password, and whenever the joiner
\* gave P as the first argument and P is not a 64-character hexadecimal
\* string.
C9_SameGroupUnlessHexFirstArgument ==
    (/\ BothStored
     /\ \/ clients.input.form = "joinGroup(x, P)"
        \/ clients.input.passphrase \notin Hex64)
       => /\ clients.joiner.secret = clients.creator.secret
          /\ clients.joiner.groupId = clients.creator.groupId

\* Both clients derived the group from a 64-hex passphrase given as password,
\* with a different first argument.
C9_Witness ==
    /\ BothStored
    /\ clients.input.form = "joinGroup(x, P)"
    /\ clients.input.passphrase = RinkSecret
    /\ clients.input.other = RandomA
    /\ clients.joiner.secret = HashOfRinkSecret
    /\ clients.joiner = clients.creator

(***************************************************************************)
(* Discarded events (claim C10)                                            *)
(***************************************************************************)
\* What a discarded event must leave alone in a group.
Core(group) ==
    [messages |-> group.messages, members |-> group.members,
     memberPubkeys |-> group.memberPubkeys, votes |-> group.votes,
     lastSeen |-> group.lastSeen, unread |-> group.unread]

SecretOf(g) == IF g \in DOMAIN groups THEN groups[g].secret ELSE publicRooms[g].secret

\* The event fails verification, does not decrypt under the secret, or is not JSON.
Discarded(ev, secret) == ~ev.sigOk \/ ev.content.key # secret \/ ~ev.content.plain.json

(***************************************************************************)
(* C10: an inbound event whose signature does not verify, whose content    *)
(* does not decrypt under the group's secret or whose plaintext is not     *)
(* JSON changes no group's messages, members, memberPubkeys, votes,        *)
(* lastSeen or unread counter and no DM thread, reaches no subscriber, and *)
(* no exception leaves ws.onmessage.                                       *)
(***************************************************************************)
C10_DiscardedEventChangesNothing ==
    [][(/\ lastOp'.op = "onmessage"
        /\ lastOp'.gid \in Stores
        /\ Discarded(lastOp'.ev, SecretOf(lastOp'.gid)))
       => /\ \A g \in DOMAIN groups : g \in DOMAIN groups' /\ Core(groups'[g]) = Core(groups[g])
          /\ \A g \in DOMAIN publicRooms :
                g \in DOMAIN publicRooms' /\ Core(publicRooms'[g]) = Core(publicRooms[g])
          /\ dmThreads' = dmThreads
          /\ ~notified'
          /\ ~lastOp'.escaped]_vars

\* A wrongly keyed event was dropped by a group that holds a message and a
\* vote tally.
C10_Witness ==
    /\ lastOp.op = "onmessage"
    /\ lastOp.result = "nodecrypt"
    /\ Len(groups[RinkGid].messages) > 0
    /\ DOMAIN groups[RinkGid].votes # {}



IsSentDm(ev, secret) ==
    /\ ev.kind = DM
    /\ ev.sigOk
    /\ ev.content.key = secret
    /\ ev.ptag \notin {Null, ev.pubkey}
    /\ ev.content.plain.dmPayload = encryptDm(ev.content.plain.dmPayload.text, ev.pubkey, ev.ptag)

\* The step hands ev to handleEvent of the private group for the first time.
FirstDelivery ==
    /\ lastOp'.op = "onmessage"
    /\ lastOp'.gid \in DOMAIN groups
    /\ lastOp'.ev.id \notin Range(groups[lastOp'.gid].processedIds.ids)

HoldsDm(threads, other, id, text, mine) ==
    /\ other \in DOMAIN threads
    /\ \E i \in 1..Len(threads[other].messages) :
          /\ threads[other].messages[i].id = id
          /\ threads[other].messages[i].text = text
          /\ threads[other].messages[i].mine = mine

\* C12: a direct message sent with sendDm is decrypted to its text by the
\* recipient and by the sender when the event comes back: after the delivery
\* the recipient's thread keyed by the sender, and the sender's thread keyed
\* by the recipient, hold the message.
C12_DmReadableByBothEnds ==
    [][(/\ FirstDelivery
        /\ IsSentDm(lastOp'.ev, groups[lastOp'.gid].secret)
        /\ MyPubkey \in {lastOp'.ev.pubkey, lastOp'.ev.ptag})
          => LET ev == lastOp'.ev IN
             IF ev.ptag = MyPubkey
             THEN HoldsDm(dmThreads', ev.pubkey, ev.id, ev.content.plain.dmPayload.text, FALSE)
             ELSE HoldsDm(dmThreads', ev.ptag, ev.id, ev.content.plain.dmPayload.text, TRUE)]_vars

\* The thread with Ann holds her message and the local user's own, delivered
\* back by the relay.
C12_Witness ==
    /\ lastOp.op = "onmessage"
    /\ HoldsDm(dmThreads, AnnPubkey, 52, "psst", FALSE)
    /\ HoldsDm(dmThreads, AnnPubkey, 60, "psst", TRUE)

\* C13: a delivery changes the DM threads only for a direct message whose p
\* tag names the local user or whose signer is the local user; a direct
\* message for and from others, or without a p tag, creates no thread,
\* appends no message and changes no unread counter.
C13_OnlyOwnDmsReachThreads ==
    [][lastOp'.op = "onmessage"
          => /\ dmThreads' # dmThreads
                  => /\ lastOp'.ev.kind = DM
                     /\ lastOp'.ev.ptag # Null
                     /\ MyPubkey \in {lastOp'.ev.ptag, lastOp'.ev.pubkey}
             /\ (/\ lastOp'.ev.kind = DM
                 /\ \/ lastOp'.ev.ptag = Null
                    \/ MyPubkey \notin {lastOp'.ev.ptag, lastOp'.ev.pubkey})
                  => /\ dmThreads' = dmThreads
                     /\ \A g \in DOMAIN groups :
                           /\ groups'[g].messages = groups[g].messages
                           /\ groups'[g].unread = groups[g].unread
                     /\ \A g \in DOMAIN publicRooms :
                           /\ publicRooms'[g].messages = publicRooms[g].messages
                           /\ publicRooms'[g].unread = publicRooms[g].unread]_vars

\* A stranger's direct message passed by a client that holds a thread.
C13_Witness ==
    /\ lastOp.op = "onmessage"
    /\ lastOp.ev \in {StrangersDm, ReplayedDm, UntaggedDm}
    /\ lastOp.result = "applied"
    /\ AnnPubkey \in DOMAIN dmThreads
    /\ Len(dmThreads[AnnPubkey].messages) > 0


(***************************************************************************)
(* C14 - C17: sending chat messages and votes (SpecSend).                  *)
(***************************************************************************)
BlankTexts == {"", " "}

\* The votes of option i in the active group.
VotesOf(i) ==
    IF ~Exists(activeGroupId) THEN <<>>
    ELSE LET group == getGroupOrRoom(Mem(groups, publicRooms, dmThreads, pushes),
                                     activeGroupId)
         IN IF i \in DOMAIN group.votes THEN group.votes[i] ELSE <<>>

\* The flag of the vote event the step recorded in r handed to publishEvent.
VotedFlag(r) == r.ev.content.plain.voted

IsVote(r, i) == r.op = "voteTime" /\ r.arg = i /\ r.result = "true"

\* C14: sendMessage called with the empty string or with whitespace only
\* returns false, sends nothing on any socket and changes no state, whatever
\* the active group and the state of the connections are.
C14_BlankSendHasNoEffect ==
    [][lastOp'.op = "sendMessage" /\ lastOp'.arg \in BlankTexts
       => /\ lastOp'.result = "false"
          /\ UNCHANGED <<regVars, netVars, storage, pushes>>]_vars

\* sendMessage(" ") has returned while the active group has no open socket.
C14_Witness ==
    /\ lastOp.op = "sendMessage"
    /\ lastOp.arg = " "
    /\ lastOp.result = "false"
    /\ activeGroupId # Null
    /\ ~HasOpenSocket(NetNow, activeGroupId)

\* C15: sendMessage called with text longer than MAX_MESSAGE_LENGTH
\* characters returns failure and puts nothing on the wire.
C15_OverlongSendRejected ==
    [][lastOp'.op = "sendMessage" /\ Length(lastOp'.arg) > MAX_MESSAGE_LENGTH
       => lastOp'.result = "false" /\ wire' = wire]_vars

\* C16 as stated: of any two successive calls voteTime(i) the first adds the
\* local name and publishes voted = true, the second removes it and
\* publishes voted = false.
C16_TwoVotesAddThenRemove ==
    [][\A i \in VoteOptions :
          IsVote(lastOp, i) /\ IsVote(lastOp', i)
          => /\ VotedFlag(lastOp)
             /\ ~VotedFlag(lastOp')
             /\ MyName \notin Range(VotesOf(i)')]_vars

\* C16 amended: a call voteTime(i) made while the local name is not in
\* votes[i] appends the name and publishes voted = true, and a call that
\* directly follows it removes the name again and publishes voted = false,
\* so that votes[i] is what it was; neither call changes another option.
C16_VoteTogglesFromUnvoted ==
    [][\A i \in VoteOptions :
          /\ IsVote(lastOp', i) /\ MyName \notin Range(VotesOf(i))
             => /\ VotesOf(i)' = Append(VotesOf(i), MyName)
                /\ VotedFlag(lastOp')
                /\ HasOpenSocket(NetNow, activeGroupId)
                   => Sent(activeGroupId, VOTE, VoteWhat(i, TRUE)) \in wire'
          /\ IsVote(lastOp, i) /\ VotedFlag(lastOp) /\ IsVote(lastOp', i)
             => /\ Append(VotesOf(i)', MyName) = VotesOf(i)
                /\ MyName \notin Range(VotesOf(i)')
                /\ ~VotedFlag(lastOp')
                /\ HasOpenSocket(NetNow, activeGroupId)
                   => Sent(activeGroupId, VOTE, VoteWhat(i, FALSE)) \in wire'
          /\ IsVote(lastOp', i)
             => \A j \in VoteOptions \ {i} : VotesOf(j)' = VotesOf(j)]_vars

\* The local user voted for option 2 twice after Ann's vote for option 3
\* arrived: both vote events are on the wire and only Ann's vote is left.
C16_Witness ==
    /\ IsVote(lastOp, 2)
    /\ ~VotedFlag(lastOp)
    /\ {Sent(RinkGid, VOTE, VoteWhat(2, TRUE)), Sent(RinkGid, VOTE, VoteWhat(2, FALSE))}
          \subseteq wire
    /\ VotesOf(2) = <<>>
    /\ VotesOf(3) = <<"Ann">>

\* C17: as soon as sendMessage has returned success, the message list of the
\* active group holds the message that was sent.
C17_SentMessageIsLocal ==
    [][lastOp'.op = "sendMessage" /\ lastOp'.result = "true"
       => \E k \in DOMAIN AllMessages'[activeGroupId] :
             AllMessages'[activeGroupId][k].id = lastOp'.ev.id]_vars


(***************************************************************************)
(* C18, C19: announcements and reconnects (SpecNet).                       *)
(***************************************************************************)
NetGids == {deriveGroupId(RandomA), RinkGid}

\* The creation or join announcement of group gid went out on a socket.
Announced(gid) ==
    \E what \in {"created", "joined"} : Sent(gid, GROUP_MSG, what) \in wire

\* The group has a socket, in any state, to the relay.
HasSocket(gid, relay) ==
    \E w \in DOMAIN sockets : sockets[w].gid = gid /\ sockets[w].relay = relay

\* C18: once a private group that createGroup or joinGroup created has an
\* open socket, its creation / join announcement is eventually sent (or the
\* group is left).
C18_AnnouncementEventuallySent ==
    \A gid \in NetGids :
        (gid \in DOMAIN groups /\ HasOpenSocket(NetNow, gid))
           ~> (Announced(gid) \/ gid \notin DOMAIN groups)

\* C19: whenever a group that exists has no socket to one of the relays, a
\* new socket to that relay is eventually made (or the group is left).
C19_EveryRelayReconnected ==
    \A gid \in NetGids : \A relay \in RELAYS :
        (gid \in DOMAIN groups /\ ~HasSocket(gid, relay))
           ~> (HasSocket(gid, relay) \/ gid \notin DOMAIN groups)


(***************************************************************************)
(* C20: ChatNetwork reconnects (SpecChatNetwork).                          *)
(***************************************************************************)
\* The connection that was established for the group has closed, and the
\* group was not disconnected.
EstablishedClosed(groupId) ==
    /\ groupId \in DOMAIN chatNetwork.connections
    /\ groupId \in chatNetwork.handlers
    /\ chatNetwork.relays[chatNetwork.connections[groupId].relay].readyState = "CLOSED"

\* C20: after the established connection of a group has closed while the
\* group is not disconnected, getStatus(groupId) is eventually 'connected'
\* again (or the group is disconnected).
C20_ReconnectsAfterClose ==
    \A groupId \in NetworkGroups :
        EstablishedClosed(groupId)
           ~> (getStatus(chatNetwork, groupId) = "connected"
               \/ groupId \notin chatNetwork.handlers)


(***************************************************************************)
(* C21, C22: what is left of a group's sockets and presence timer          *)
(* (SpecNet).                                                              *)
(***************************************************************************)
\* A socket of the group is open or connecting.
HasLiveSocket(gid) ==
    \E w \in DOMAIN sockets :
        sockets[w].gid = gid /\ sockets[w].readyState \in {"OPEN", "CONNECTING"}

\* A presence interval timer of the group is registered or running.
HasPresenceTimer(gid) == gid \in DOMAIN presenceTimers \/ gid \in Range(intervals)

\* C21: a group that is not stored (it was left and not joined again) has no
\* open or connecting socket and no presence timer, registered or running.
C21_LeftGroupHasNoSocketsOrTimers ==
    \A gid \in NetGids :
        gid \notin DOMAIN groups => ~HasLiveSocket(gid) /\ ~HasPresenceTimer(gid)


\* C22: once a presence timer is registered for a stored group, it stays
\* registered and running for as long as the group stays stored.
C22_PresenceTimerStaysUntilLeft ==
    [][\A gid \in NetGids :
          (gid \in DOMAIN groups /\ gid \in DOMAIN presenceTimers /\ gid \in DOMAIN groups')
          => (gid \in DOMAIN presenceTimers' /\ gid \in Range(intervals'))]_vars


(***************************************************************************)
(* C23: the connection status (SpecLoad).                                  *)
(***************************************************************************)
\* Some socket of the group is OPEN.
HasOpen(gid) ==
    \E w \in DOMAIN sockets : sockets[w].gid = gid /\ sockets[w].readyState = "OPEN"

\* C23: getConnectionStatus(g) is 'connected' only while a socket of g is
\* open.
C23_ConnectedOnlyWhileOpen ==
    \A gid \in DOMAIN groups \cup DOMAIN publicRooms :
        getConnectionStatus(gid) = "connected" => HasOpen(gid)


(***************************************************************************)
(* C24: leaveGroup and the active group (SpecReg).                         *)
(***************************************************************************)
\* What leaveGroup(g) leaves as the active group when g was active.
ActiveAfterLeave ==
    IF DOMAIN groups' # {}
    THEN activeGroupId' \in DOMAIN groups' /\ ~activeIsPublic'
    ELSE IF DOMAIN publicRooms' # {}
    THEN activeGroupId' \in DOMAIN publicRooms' /\ activeIsPublic'
    ELSE activeGroupId' = Null /\ ~activeIsPublic'

\* C24 as stated: leaveGroup(g) deletes g; if g was active the new active
\* group is a remaining private group, else a remaining public room, else
\* none; if g was not active the active group is unchanged.
C24_LeaveDeletesAndPicksActive ==
    [][lastOp'.op = "leaveGroup" /\ lastOp'.result = "ok"
       => /\ lastOp'.gid \notin DOMAIN groups' \cup DOMAIN publicRooms'
          /\ IF activeGroupId = lastOp'.gid THEN ActiveAfterLeave
             ELSE UNCHANGED <<activeGroupId, activeIsPublic>>]_vars


\* The same for a group that is stored in one of the two maps only.
C24_LeaveOfSingleEntry ==
    [][lastOp'.op = "leaveGroup" /\ lastOp'.result = "ok"
       /\ ~(lastOp'.gid \in DOMAIN groups /\ lastOp'.gid \in DOMAIN publicRooms)
       => /\ lastOp'.gid \notin DOMAIN groups' \cup DOMAIN publicRooms'
          /\ IF activeGroupId = lastOp'.gid THEN ActiveAfterLeave
             ELSE UNCHANGED <<activeGroupId, activeIsPublic>>]_vars


(***************************************************************************)
(* C25: announcements of public rooms and of leaving (SpecCap).            *)
(***************************************************************************)
\* The step put a system announcement (a GROUP_MSG) of the group on the wire.
AnnouncesOn(gid) == \E m \in wire' \ wire : m.gid = gid /\ m.kind = GROUP_MSG

\* C25: joinPublicRoom and the leaveGroup of a public room put no join,
\* creation or leave announcement of the room on the wire; the leaveGroup of
\* a private group that has an open socket puts its leave announcement on
\* the wire, and the sockets are closed only after that.
C25_RoomsSilentPrivateLeaveAnnounced ==
    [][/\ lastOp'.op = "joinPublicRoom" /\ lastOp'.gid # Null => ~AnnouncesOn(lastOp'.gid)
       /\ lastOp'.op = "leaveGroup" /\ lastOp'.result = "ok"
          => IF lastOp'.gid \in DOMAIN publicRooms
             THEN ~AnnouncesOn(lastOp'.gid)
             ELSE /\ HasOpenSocket(NetNow, lastOp'.gid)
                     => Sent(lastOp'.gid, GROUP_MSG, "left") \in wire'
                  /\ \A w \in DOMAIN sockets' :
                        sockets'[w].gid = lastOp'.gid => sockets'[w].readyState = "CLOSING"]_vars

\* A private group with open sockets was left after a public room had been
\* joined and had opened a socket: only the private group's leave is
\* announced.
C25_Witness ==
    /\ lastOp.op = "leaveGroup"
    /\ lastOp.gid = CapGid(1)
    /\ Sent(CapGid(1), GROUP_MSG, "left") \in wire
    /\ LeisureGid \in DOMAIN publicRooms
    /\ HasOpenSocket(NetNow, LeisureGid)
    /\ \A m \in wire : m.gid = LeisureGid => m.kind = PRESENCE


(***************************************************************************)
(* C26: the text that is stored of an inbound chat message (SpecSend).     *)
(***************************************************************************)
\* C26: the message stored for an accepted chat event has the text of the
\* event's payload.
C26_StoredTextIsPayloadText ==
    [][lastOp'.op = "onmessage" /\ lastOp'.result = "applied" /\ lastOp'.ev.kind = GROUP_MSG
       => \A k \in DOMAIN AllMessages'[lastOp'.gid] :
             AllMessages'[lastOp'.gid][k].id = lastOp'.ev.id
             => AllMessages'[lastOp'.gid][k].text = lastOp'.ev.content.plain.text]_vars


(***************************************************************************)
(* SpecSave: the calls that change the stored groups, rooms and threads,   *)
(* and the events relays deliver, among them a chat event whose payload    *)
(* has no text field.                                                      *)
(***************************************************************************)
MaxSaveSteps == 3

\* A chat event of another member whose payload is {"from": "Ann"}.
BareEvent == Event(59, "pk-ann", 47, GROUP_MSG, Null, TRUE, RinkSecret,
                   Payload(Undefined, "Ann", FALSE))

\* A presence event Ann published before PresenceEvent.
EarlierPresence == Event(60, "pk-ann", 39, PRESENCE, Null, TRUE, RinkSecret,
                         Payload(Undefined, "Ann", FALSE))

SaveEvents ==
    {ChatEvent(1), RudeEvent, BareEvent, VoteEvent, PresenceEvent, EarlierPresence, AnnDm}

InitSave ==
    /\ MsgState
    /\ lastOp = Op("timeout", RinkGid, NoEvent, "ok", FALSE)
    /\ InitIdle

SaveCounted == steps < MaxSaveSteps /\ steps' = steps + 1

SaveCreateGroup == SaveCounted /\ CreateGroupCall("Skating Group", Null, RandomA)

SaveJoinGroup == SaveCounted /\ \E secret \in {RinkSecret, RandomB} : JoinGroupCall(secret, Null, Null)

SaveJoinPublicRoom == SaveCounted /\ pending' = pending /\ joinPublicRoom("leisure")

SaveLeaveGroup == SaveCounted /\ pending' = pending /\ \E gid \in {RinkGid, LeisureGid} : leaveGroup(gid)

SaveSwitchGroup == SaveCounted /\ pending' = pending /\ \E gid \in {RinkGid, LeisureGid} : switchGroup(gid)

SaveVoteTime == SaveCounted /\ pending' = pending /\ voteTime(2)

SaveStartDm == SaveCounted /\ pending' = pending /\ \E name \in {"Ann", "Zed"} : startDm(name)

SaveDeliver ==
    /\ SaveCounted
    /\ pending' = pending
    /\ \E ev \in SaveEvents : OnMessage(RinkGid, FALSE, ev)

NextSave ==
    \/ SaveCreateGroup
    \/ SaveJoinGroup
    \/ SaveJoinPublicRoom
    \/ SaveLeaveGroup
    \/ SaveSwitchGroup
    \/ SaveVoteTime
    \/ SaveStartDm
    \/ SaveDeliver

SpecSave == InitSave /\ [][NextSave]_vars

\* The fields the record in localStorage is compared on.
Listed(entries) ==
    [k \in DOMAIN entries |->
        [messages |-> entries[k].messages, members |-> entries[k].members,
         votes |-> entries[k].votes, unread |-> entries[k].unread]]

ListedState(g, p, dm, active) ==
    [groups |-> Listed(g), publicRooms |-> Listed(p), dmThreads |-> dm, activeGroupId |-> active]

InMemory == ListedState(groups, publicRooms, dmThreads, activeGroupId)

Persisted ==
    ListedState(storage.groups, storage.publicRooms, storage.dmThreads, storage.activeGroupId)

MutatingOps ==
    {"createGroup", "joinGroup", "joinPublicRoom", "leaveGroup", "switchGroup", "voteTime",
     "startDm"}

\* C29: after every call of createGroup, joinGroup, joinPublicRoom,
\* leaveGroup, switchGroup, voteTime and startDm, and after every delivered
\* event that changed the messages, members, votes or unread counter of a
\* group or room, a DM thread or activeGroupId, the record in localStorage
\* equals the state in memory on these fields.
C29_PersistedEqualsMemory ==
    [][(\/ lastOp'.op \in MutatingOps
        \/ lastOp'.op = "onmessage" /\ InMemory' # InMemory)
       => Persisted' = InMemory']_vars

\* Every step but a delivery whose handler threw keeps the record equal to
\* the state in memory.
C29_EqualUnlessHandlerThrew ==
    [][(lastOp'.result # "exception" /\ Persisted = InMemory)
       => Persisted' = InMemory']_vars

(***************************************************************************)
(* SpecTimeline: the user selects users and changes the range while relays *)
(* answer the fetches, the superseded ones included.                       *)
(***************************************************************************)
MaxTimelineSteps == 4

TimelineNotes ==
    {Note(1, "pk-ann", 10, <<>>), Note(2, "pk-ann", 20, <<<<1, "reply">>, <<3, "">>>>),
     Note(3, "pk-bob", 15, <<>>)}

TimelineCounted == steps < MaxTimelineSteps /\ steps' = steps + 1

DoSelectUser == TimelineCounted /\ \E pubkey \in TimelineUsers \cup {"pk-zed"} : SelectUser(pubkey)

DoSetTimeRange == TimelineCounted /\ \E hours \in {24, 168} : SetTimeRange(hours)

DoSetCustomTimeRange ==
    TimelineCounted /\ \E val \in {"48", "0", "721", "abc"} : SetCustomTimeRange(val)

DoEventCallback ==
    TimelineCounted /\ \E reqId \in DOMAIN timeline.subs, event \in TimelineNotes :
                          EventCallback(reqId, event)

DoRenderTimeout == TimelineCounted /\ RenderTimeout

DoEoseCallback ==
    TimelineCounted /\ \E reqId \in DOMAIN timeline.subs, relay \in EnabledRelays :
                          EoseCallback(reqId, relay)

NextTimeline ==
    \/ DoSelectUser
    \/ DoSetTimeRange
    \/ DoSetCustomTimeRange
    \/ DoEventCallback
    \/ DoRenderTimeout
    \/ DoEoseCallback

SpecTimeline == InitReg /\ [][NextTimeline]_vars

\* The fields a fetch fills.
Fetched(T) ==
    [userEvents |-> T.userEvents, seenEventIds |-> T.seenEventIds,
     parentEvents |-> T.parentEvents,
     postCount |-> [u \in DOMAIN T.users |-> T.users[u].postCount],
     isLoading |-> T.isLoading]

Callbacks == {"onEvent", "renderTimeout", "onEose"}

\* C30: currentRequestId never decreases, and an event callback, a render
\* timer callback or an end-of-stream callback whose request id is no longer
\* the current one leaves userEvents, seenEventIds, parentEvents, every
\* user's postCount and isLoading as they are.
C30_SupersededCallbacksAreNoOps ==
    [][/\ timeline'.currentRequestId >= timeline.currentRequestId
       /\ (lastOp'.op \in Callbacks /\ lastOp'.arg < timeline.currentRequestId)
          => Fetched(timeline') = Fetched(timeline)]_vars

\* A note reached the callback of a superseded fetch of its author after the
\* current fetch had stored another note.
C30_Witness ==
    /\ lastOp.op = "onEvent"
    /\ lastOp.arg < timeline.currentRequestId
    /\ timeline.subs[lastOp.arg].pubkey = timeline.selectedUser
    /\ Len(timeline.userEvents) = 1
    /\ timeline.seenEventIds # {}
    /\ timeline.isLoading

\* The end of stream of a superseded fetch, all relays heard.
C30_WitnessEose ==
    /\ lastOp.op = "onEose"
    /\ lastOp.arg < timeline.currentRequestId
    /\ timeline.subs[lastOp.arg].eose = EnabledRelays
    /\ timeline.isLoading

\* The render timer of a superseded fetch fired.
C30_WitnessTimer ==
    /\ lastOp.op = "renderTimeout"
    /\ lastOp.arg < timeline.currentRequestId

(***************************************************************************)
(* C27: switchGroup (SpecSend).  C28: unread counters of DM threads        *)
(* (SpecDm).                                                               *)
(***************************************************************************)
\* The entries of a map of groups with the unread counters left out.
ButUnread(entries) ==
    [k \in DOMAIN entries |->
        [f \in DOMAIN entries[k] \ {"unread"} |-> entries[k][f]]]

Unreads(entries, but) == [k \in DOMAIN entries \ {but} |-> entries[k].unread]

\* C27: switchGroup of a private group or public room that exists makes it
\* the active one and sets its unread counter to 0; the unread counter of
\* every other group and room, every message list (and every other field of
\* a group) and the DM threads stay as they are.  switchGroup of an id that
\* is neither changes nothing.
C27_SwitchGroupFrame ==
    [][lastOp'.op = "switchGroup"
       => IF lastOp'.result = "ok"
          THEN LET gid == lastOp'.gid
                   mine == gid \in DOMAIN groups
               IN  /\ Exists(gid)
                   /\ activeGroupId' = gid
                   /\ activeIsPublic' = ~mine
                   /\ getGroupOrRoom(Mem(groups', publicRooms', dmThreads', pushes'),
                                     gid).unread = 0
                   /\ ButUnread(groups') = ButUnread(groups)
                   /\ ButUnread(publicRooms') = ButUnread(publicRooms)
                   /\ Unreads(groups', IF mine THEN gid ELSE Null)
                         = Unreads(groups, IF mine THEN gid ELSE Null)
                   /\ Unreads(publicRooms', IF mine THEN Null ELSE gid)
                         = Unreads(publicRooms, IF mine THEN Null ELSE gid)
                   /\ dmThreads' = dmThreads
          ELSE /\ ~Exists(lastOp'.arg)
               /\ UNCHANGED <<groups, publicRooms, dmThreads, activeGroupId,
                              activeIsPublic, activeDmRecipient, storage>>]_vars

\* The switch to the room while the private group holds an unread message
\* and a DM thread is stored: the group keeps its counter.
C27_Witness ==
    /\ lastOp.op = "switchGroup"
    /\ lastOp.result = "ok"
    /\ lastOp.gid = LeisureGid
    /\ activeGroupId = LeisureGid
    /\ publicRooms[LeisureGid].unread = 0
    /\ RinkGid \in DOMAIN groups
    /\ groups[RinkGid].unread = 1
    /\ DOMAIN dmThreads # {}

\* switchGroup of a group that was left.
C27_WitnessUnknown == lastOp.op = "switchGroup" /\ lastOp.result = "nogroup"

DmUnread(threads, k) == IF k \in DOMAIN threads THEN threads[k].unread ELSE 0

StoredDm(threads, k, id) ==
    k \in DOMAIN threads /\ \E i \in 1..Len(threads[k].messages) : threads[k].messages[i].id = id

\* The delivery stored a new direct message of peer k for the local user
\* while the thread with k was not the open one.
CountedDm(k) ==
    /\ lastOp'.ev.kind = DM
    /\ lastOp'.ev.pubkey = k
    /\ k # MyPubkey
    /\ lastOp'.ev.ptag = MyPubkey
    /\ StoredDm(dmThreads', k, lastOp'.ev.id)
    /\ ~StoredDm(dmThreads, k, lastOp'.ev.id)
    /\ activeDmRecipient # k

\* C28: a delivery raises the unread counter of a thread by one when it
\* stores a new direct message of the peer for the local user while the
\* thread is not open, and leaves every counter as it is otherwise (an
\* outbound message coming back, a message for the open thread, an event
\* that is stored already); sendDm changes no thread.
C28_UnreadCountsNewInboundDms ==
    [][/\ lastOp'.op = "onmessage"
          => \A k \in DOMAIN dmThreads' :
                DmUnread(dmThreads', k)
                   = DmUnread(dmThreads, k) + (IF CountedDm(k) THEN 1 ELSE 0)
       /\ lastOp'.op = "sendDm" => dmThreads' = dmThreads]_vars

\* Two messages of Ann arrived while her thread was not open.
C28_Witness ==
    /\ lastOp.op = "onmessage"
    /\ StoredDm(dmThreads, AnnPubkey, 52)
    /\ StoredDm(dmThreads, AnnPubkey, 58)
    /\ DmUnread(dmThreads, AnnPubkey) = 2


(***************************************************************************)
(* C33: a forged event and the genuine event of the same id (SpecDrop).    *)
(***************************************************************************)
Genuine(ev, secret) ==
    verifyEvent(ev) /\ DecryptForGroupOk(ev.content, secret) /\ ev.content.plain.json

\* C33: a correctly signed, decryptable chat event delivered to a private
\* group is in the group's messages afterwards, whatever was delivered
\* before, an event of the same id with an invalid signature included.
C33_GenuineEventStoredAfterForgery ==
    [][(/\ lastOp'.op = "onmessage"
        /\ lastOp'.gid \in DOMAIN groups
        /\ lastOp'.ev.kind = GROUP_MSG
        /\ Genuine(lastOp'.ev, groups[lastOp'.gid].secret))
       => HasId(groups'[lastOp'.gid].messages, lastOp'.ev.id)]_vars


(***************************************************************************)
(* C39: one inbound event is applied as a whole or not at all (SpecSave).  *)
(***************************************************************************)
Content(entries) ==
    [k \in DOMAIN entries |->
        [messages |-> entries[k].messages, members |-> entries[k].members,
         votes |-> entries[k].votes]]

\* C39: a delivery either leaves the messages, members and votes of every
\* group and room and the DM threads as they were, or ends with the state
\* in memory written to localStorage and the subscribers notified.
C39_EventAppliedWhollyOrNotAtAll ==
    [][lastOp'.op = "onmessage"
       => \/ /\ Content(groups') = Content(groups)
             /\ Content(publicRooms') = Content(publicRooms)
             /\ dmThreads' = dmThreads
          \/ /\ Persisted' = InMemory'
             /\ notified']_vars

\* Every delivery but one whose handler threw is applied as a whole or not
\* at all.
C39_WhollyUnlessHandlerThrew ==
    [][(lastOp'.op = "onmessage" /\ lastOp'.result # "exception")
       => \/ /\ Content(groups') = Content(groups)
             /\ Content(publicRooms') = Content(publicRooms)
             /\ dmThreads' = dmThreads
          \/ /\ Persisted' = InMemory'
             /\ notified']_vars


(***************************************************************************)
(* C40: last-seen timestamps (SpecSave).                                   *)
(***************************************************************************)
LastSeenGrows(before, after) ==
    \A g \in DOMAIN before \cap DOMAIN after :
       \A name \in DOMAIN before[g].lastSeen :
          /\ name \in DOMAIN after[g].lastSeen
          /\ after[g].lastSeen[name] >= before[g].lastSeen[name]

\* C40: no step lowers group.lastSeen[name] of a group or room that is kept.
C40_LastSeenNeverDecreases ==
    [][LastSeenGrows(groups, groups') /\ LastSeenGrows(publicRooms, publicRooms')]_vars


(***************************************************************************)
(* SpecVote: the local user toggles votes in the private group, whose      *)
(* sockets stay open; the relays deliver each published vote event back    *)
(* once, in any order, and another member's vote.                          *)
(***************************************************************************)
MaxVotes == 3

InitVote ==
    /\ MsgState
    /\ lastOp = Op("timeout", RinkGid, NoEvent, "ok", FALSE)
    /\ InitIdle

VoteCall == steps < MaxVotes /\ steps' = steps + 1 /\ pending' = pending
            /\ \E i \in VoteOptions : voteTime(i)

VoteEcho ==
    /\ UNCHANGED <<steps, pending>>
    /\ \E k \in (1..Len(ballots.sent)) \ ballots.back : OnMessage(RinkGid, FALSE, ballots.sent[k])

VoteOfOther ==
    /\ UNCHANGED <<steps, pending>>
    /\ AnnVote3.id \notin Range(groups[RinkGid].processedIds.ids)
    /\ OnMessage(RinkGid, FALSE, AnnVote3)

NextVote ==
    \/ VoteCall
    \/ VoteEcho
    \/ VoteOfOther

SpecVote == InitVote /\ [][NextVote]_vars

\* The number of voteTime(i) calls so far.
CallsFor(i) == Cardinality({k \in 1..Len(ballots.sent) : ballots.sent[k].content.plain.programIndex = i})

InTally(i) ==
    i \in DOMAIN groups[RinkGid].votes /\ MyName \in Range(groups[RinkGid].votes[i])

AllBack == ballots.back = 1..Len(ballots.sent)

\* C36: once every vote event the local user published has come back, in
\* whatever order, votes[i] holds the local user's name exactly when
\* voteTime(i) was called an odd number of times.
C36_TallyConvergesToLastToggle ==
    AllBack => \A i \in VoteOptions : InTally(i) <=> (CallsFor(i) % 2 = 1)

\* Before any event came back, the tally is the user's last toggle.
C36_TallyIsLastToggleLocally ==
    ballots.back = {} => \A i \in VoteOptions : InTally(i) <=> (CallsFor(i) % 2 = 1)


(***************************************************************************)
(* C35: the unread counter of a group that becomes active (SpecSave).      *)
(***************************************************************************)
Activating == {"switchGroup", "joinGroup", "createGroup", "joinPublicRoom", "leaveGroup"}

\* The entry getState() returns as activeGroup.
ActiveEntry(g, p, active, isPublic) == IF isPublic THEN p[active] ELSE g[active]

HasActiveEntry(g, p, active, isPublic) ==
    IF isPublic THEN active \in DOMAIN p ELSE active \in DOMAIN g

\* C35: after switchGroup, joinGroup, createGroup, joinPublicRoom or
\* leaveGroup made another group or room the active one, its unread counter
\* is 0.
C35_ActivatedGroupHasNoUnread ==
    [][(/\ lastOp'.op \in Activating
        /\ activeGroupId' # activeGroupId
        /\ HasActiveEntry(groups', publicRooms', activeGroupId', activeIsPublic'))
       => ActiveEntry(groups', publicRooms', activeGroupId', activeIsPublic').unread = 0]_vars

\* The same for switchGroup alone.
C35_SwitchedGroupHasNoUnread ==
    [][(/\ lastOp'.op = "switchGroup"
        /\ activeGroupId' # activeGroupId
        /\ HasActiveEntry(groups', publicRooms', activeGroupId', activeIsPublic'))
       => ActiveEntry(groups', publicRooms', activeGroupId', activeIsPublic').unread = 0]_vars


(***************************************************************************)
(* SpecLoad: the two joined groups, the calls that change the registry,    *)
(* deliveries, and page loads with and without a URL fragment.             *)
(***************************************************************************)
MaxLoadSteps == 3

\* window.location.hash.slice(1): none, the secret of the joined private
\* group, the secret of a group that is not joined.
LoadHashes == {"", RinkSecret, RandomB}

LoadCounted == steps < MaxLoadSteps /\ steps' = steps + 1

LoadInit == LoadCounted /\ \E hash \in LoadHashes : init(hash)

LoadCreateGroup == LoadCounted /\ CreateGroupCall("Skating Group", Null, RandomA)

LoadJoinPublicRoom == LoadCounted /\ pending' = pending /\ joinPublicRoom("leisure")

LoadLeaveGroup ==
    LoadCounted /\ pending' = pending /\ \E gid \in {RinkGid, LeisureGid} : leaveGroup(gid)

LoadSwitchGroup ==
    LoadCounted /\ pending' = pending /\ \E gid \in {RinkGid, LeisureGid} : switchGroup(gid)

LoadDeliver ==
    /\ LoadCounted
    /\ pending' = pending
    /\ \E ev \in {ChatEvent(1), ChatEvent(2)} : OnMessage(RinkGid, FALSE, ev)

\* only the first relay answers in this specification
LoadSocketOpen ==
    \E w \in DOMAIN sockets : sockets[w].relay = "wss://relay.damus.io" /\ SocketOpen(w)

LoadAnnounceTimeout == \E t \in announceTimers : AnnounceTimeout(t)

NextLoad ==
    \/ LoadInit
    \/ LoadCreateGroup
    \/ LoadJoinPublicRoom
    \/ LoadLeaveGroup
    \/ LoadSwitchGroup
    \/ LoadDeliver
    \/ LoadSocketOpen
    \/ LoadAnnounceTimeout

SpecLoad == InitSave /\ [][NextLoad]_vars

(***************************************************************************)
(* C32: a restored group goes on processing events (SpecLoad).             *)
(***************************************************************************)
\* C32: a correctly signed, decryptable chat event whose id is in none of
\* the group's messages, delivered to a private group, is in the group's
\* messages afterwards, also when the group was restored by loadState.
C32_RestoredGroupStoresNewEvent ==
    [][(/\ lastOp'.op = "onmessage"
        /\ lastOp'.gid \in DOMAIN groups
        /\ lastOp'.ev.kind = GROUP_MSG
        /\ Genuine(lastOp'.ev, groups[lastOp'.gid].secret)
        /\ lastOp'.ev.id \notin Range(groups[lastOp'.gid].processedIds.ids))
       => HasId(groups'[lastOp'.gid].messages, lastOp'.ev.id)]_vars

(***************************************************************************)
(* C34: the active id names an entry of the map that activeIsPublic names  *)
(* (SpecLoad).                                                             *)
(***************************************************************************)
\* C34: activeGroupId is null, or it is the id of a public room when
\* activeIsPublic is true and the id of a private group when it is false.
C34_ActiveNamesExistingEntry ==
    \/ activeGroupId = Null
    \/ activeIsPublic /\ activeGroupId \in DOMAIN publicRooms
    \/ ~activeIsPublic /\ activeGroupId \in DOMAIN groups

(***************************************************************************)
(* C37: init connects what loadState restored (SpecLoad).                  *)
(***************************************************************************)
\* C37: when init has run, every private group and every public room of the
\* state has a registered set of relay sockets and a registered presence
\* timer, whatever the URL fragment was.
C37_InitConnectsEveryStoredGroup ==
    [][lastOp'.op = "init"
       => \A gid \in DOMAIN groups' \cup DOMAIN publicRooms' :
             gid \in DOMAIN connections' /\ gid \in DOMAIN presenceTimers']_vars

(***************************************************************************)
(* C38: the running presence intervals are the registered ones (SpecLoad). *)
(***************************************************************************)
Registered(timer) ==
    /\ intervals[timer] \in DOMAIN presenceTimers
    /\ presenceTimers[intervals[timer]] = timer

\* C38: every running presence interval is the one that state.presenceTimers
\* holds for its group, and that group or room exists; so no group has two.
C38_RunningTimersAreRegistered ==
    \A timer \in DOMAIN intervals :
        /\ Registered(timer)
        /\ intervals[timer] \in DOMAIN groups \cup DOMAIN publicRooms

(***************************************************************************)
(* SpecReload: page loads with the transport's callbacks.  No relay closes *)
(* a socket: the close events are those of sockets the client closed.      *)
(***************************************************************************)
ReloadSocketClose ==
    /\ \E w \in DOMAIN sockets : sockets[w].readyState = "CLOSING" /\ SocketClose(w)
    /\ UNCHANGED <<pending, steps>>

NextReload ==
    \/ LoadInit
    \/ LoadSocketOpen
    \/ LoadAnnounceTimeout
    \/ ReloadSocketClose
    \/ DoReconnectTimeout

SpecReload == InitSave /\ [][NextReload]_vars

(***************************************************************************)
(* C31: sockets closed by the client schedule no reconnect (SpecReload).   *)
(***************************************************************************)
\* C31: the close event of a socket that the client closed itself, while
\* its group still exists, schedules no reconnect and leaves the group's
\* connected flag as it was.
C31_ClientClosedSocketsScheduleNoReconnect ==
    [][\A w \in DOMAIN sockets \ DOMAIN sockets' :
          sockets[w].readyState = "CLOSING"
          => /\ reconnectTimers' = reconnectTimers
             /\ groups' = groups
             /\ publicRooms' = publicRooms]_vars

\* C31, its consequence: without a page load, and with no relay closing a
\* socket, a socket that is open stays open.
C31_OpenSocketsStayOpen ==
    [][lastOp'.op # "init"
       => \A w \in DOMAIN sockets :
             sockets[w].readyState = "OPEN"
             => w \in DOMAIN sockets' /\ sockets'[w].readyState = "OPEN"]_vars

=============================================================================
